---- MODULE Spec2Model ----
(***************************************************************************)
(* ReportVerse: the Express REST API of the mentor-mentee application.     *)
(* The state is the content of the User, Issue, Achievement and            *)
(* AcademicRecord collections, the handlers in flight and the response     *)
(* written last.  A handler that awaits the database more than once and    *)
(* writes is a sequence of steps, one per await, with its position and the *)
(* documents it holds in calls; between two of its steps the steps of      *)
(* another request may run.  The other handlers are one step: the route's  *)
(* middleware (protect, isMentor / isMentee) followed by the controller.   *)
(* Deliver ends the request.  resp also echoes what the properties need of *)
(* the request (token, id parameter, requested status, status before).     *)
(* The middleware reads the user of the token, which no request removes or *)
(* gives another role, so it is evaluated with the first step of the       *)
(* handler.  POST /api/mentor/issues is routed to a controller function    *)
(* that the source at hand does not contain: its step follows the Create   *)
(* contract of the specification.                                          *)
(***************************************************************************)
EXTENDS Integers, Sequences, FiniteSets, TLC

VARIABLES users, issues, achievements, academics, resp,
          state, closure, inflight, netCalls, now, ret,
          mounted, hasShownNotifications, callbackSees, pendingChecks, ticks, toasts,
          readyState, pingAnswers, buildThrows, healthCall, healthResp,
          calls, page, view, db

\* The server: the collections and the response being written
serverVars == <<users, issues, achievements, academics, resp>>

\* One useAPIService instance of a page in the browser
hookVars == <<state, closure, inflight, netCalls, now, ret>>

\* The IssueNotifications component of a mentor's page
pollerVars == <<mounted, hasShownNotifications, callbackSees, pendingChecks, ticks, toasts>>

\* The database connection, the host and GET /api/health
healthVars == <<readyState, pingAnswers, buildThrows, healthCall, healthResp>>

\* calls: the handlers in flight when requests are served concurrently, each
\* with its position and the documents it has loaded.  page: the mentor
\* achievements page around its useAPIService instance.  view: a page that
\* sends a mutating call and patches what it shows.  db: the connection loop
\* of the server process.
vars == <<serverVars, hookVars, pollerVars, healthVars, calls, page, view, db>>

\* What a step of the server, of the hook, of the poller and of the health
\* route leaves alone
offServer == <<hookVars, pollerVars, healthVars, calls, page, view, db>>

offHook == <<serverVars, pollerVars, healthVars, calls, page, view, db>>

offPoller == <<serverVars, hookVars, healthVars, calls, page, view, db>>

offHealth == <<serverVars, hookVars, pollerVars, calls, page, view, db>>

\* What a step of a handler in calls leaves alone
offSteps == <<hookVars, pollerVars, healthVars, page, view, db>>

\* What a step of a concurrent handler leaves alone besides the collections
offCalls == <<achievements, academics, resp, hookVars, pollerVars, healthVars,
              page, view, db>>

\* What a step of the achievements page, of a page that sends a mutating
\* call and of the database connection loop leaves alone
offPage == <<serverVars, pollerVars, healthVars, calls, view, db>>

offView == <<serverVars, hookVars, pollerVars, healthVars, calls, page, db>>

offDb == <<serverVars, hookVars, pollerVars, healthVars, calls, page, view>>

(* ---- bounds ---- *)
\* The runs store at most MaxDocs documents: users, issues, comments,
\* achievements and academic records together.
MaxDocs == 5
\* A page is followed for MaxNow minutes and starts at most MaxCalls network
\* calls.
MaxNow == 6
MaxCalls == 3
\* The interval of a mounted IssueNotifications fires at most MaxTicks times.
MaxTicks == 3
\* At most MaxHandlers requests are in flight at once.
MaxHandlers == 3
\* The dashboard is followed for MaxRuns runs of refreshData.
MaxRuns == 2
\* An academic record is followed up to version MaxVersion.
MaxVersion == 2

(* ---- values ---- *)
\* An e-mail address is an opaque value; User.email is unique.
Emails == 1..MaxDocs
\* Addresses are interchangeable, so requests use them in order of first use:
\* one already registered, or the first one that is not.
EmailsInUse == 1..(Len(users) + 1)
\* ObjectIds of users and issues are the positions in the collections.
\* 0 stands for an absent (undefined) reference, BadId for a string that
\* does not cast to an ObjectId.
Absent == 0
BadId == -1
UserIds == 1..MaxDocs
\* Authorization header: none, a token jwt.verify rejects, or a token the
\* server signed for a user id.
NoToken == 0
BadToken == -1

IssueTypes == {"Academic", "Grievances", "Ragging", "Harassment", "Accommodation", "Other"}
Statuses == {"Open", "Under Review", "Resolved", "Closed"}
AchievementTypes == {"Sports", "Competitive Exam", "Internship", "Research Publication",
                     "Award", "Cultural Event", "Technical Event", "Hackathon", "Other"}

NoIssue == [id |-> 0, mentee |-> 0, mentor |-> 0, issueType |-> "", description |-> "",
            status |-> "", comments |-> <<>>]

NoComment == [user |-> 0, text |-> ""]

\* A request body is a JSON object: a function from the names of the fields
\* it carries to their values, written as JSON text.  NoBody is {}.
NoBody == [f \in {} |-> ""]

NoAcademic == [mentee |-> 0, semesterGPA |-> "", moocCourses |-> "", certifications |-> "",
               semesterMarksheets |-> "", backlogs |-> 0, __v |-> 0]

NoResp == [op |-> "none", token |-> NoToken, status |-> 0, error |-> "", ran |-> FALSE,
           arg |-> 0, mentorId |-> 0, password |-> "", reqStatus |-> "", was |-> "", issued |-> NoToken,
           body |-> NoBody, academic |-> NoAcademic, issue |-> NoIssue, comment |-> NoComment, list |-> <<>>]

\* The handlers that can be in flight at once
Handlers == 1..MaxHandlers

\* A handler in flight: its position (pc), the request (op, caller, arg,
\* body), the documents it holds (mentee: the id of the mentee found or
\* created, mentor: the assignedMentor of the mentee as read, loaded: the
\* issue as read, doc: the issue with the handler's changes) and, when it has
\* ended, its answer.
NoCall == [pc |-> "idle", op |-> "", caller |-> 0, arg |-> 0, mentee |-> 0, mentor |-> 0,
           loaded |-> NoIssue, doc |-> NoIssue, body |-> NoBody, status |-> 0,
           error |-> ""]

Done(call, status, error) == [call EXCEPT !.pc = "done", !.status = status, !.error = error]

(* ---- helpers over the collections ---- *)
RECURSIVE CommentCount(_)
CommentCount(n) == IF n = 0 THEN 0 ELSE Len(issues[n].comments) + CommentCount(n - 1)

\* The number of stored documents
Docs ==
    Len(users) + Len(issues) + CommentCount(Len(issues)) + Len(achievements)
        + Len(academics)

\* User.findById
UserExists(id) == id \in DOMAIN users

\* User.findOne({ email }) / User.findOne({ email, role })
UsersWithEmail(email) == {u \in DOMAIN users : users[u].email = email}

\* Array.prototype.includes on a roster
Includes(seq, x) == \E k \in DOMAIN seq : seq[k] = x

Reverse(seq) == [k \in 1..Len(seq) |-> seq[Len(seq) + 1 - k]]

\* Issue.find({ mentee: id }).sort('-createdAt'): createdAt grows with the
\* position in the collection, so newest-first is decreasing position.
IssuesOfMentee(id) ==
    LET Test(i) == i.mentee = id IN Reverse(SelectSeq(issues, Test))

\* A listing that forgets the { mentor: id } filter
IssuesOfMentorUnfiltered(id) == Reverse(issues)

\* Issue.find({ mentor: id }).sort('-createdAt')
IssuesOfMentor(id) ==
    LET Test(i) == i.mentor = id IN Reverse(SelectSeq(issues, Test))

\* populate({ path: 'comments.user', select: 'email role' })
PopulateComments(issue) ==
    [issue EXCEPT !.comments =
        [k \in DOMAIN issue.comments |->
            [user |-> IF UserExists(issue.comments[k].user)
                      THEN [id |-> issue.comments[k].user,
                            email |-> users[issue.comments[k].user].email,
                            role |-> users[issue.comments[k].user].role]
                      ELSE [id |-> 0, email |-> 0, role |-> ""],
             text |-> issue.comments[k].text]]]

\* populate({ path: 'mentee', select: 'email' })
PopulateMentee(issue) ==
    [issue EXCEPT !.mentee = IF UserExists(issue.mentee)
                             THEN [id |-> issue.mentee, email |-> users[issue.mentee].email]
                             ELSE [id |-> 0, email |-> 0]]

PopulateMenteeAll(seq) == [k \in DOMAIN seq |-> PopulateMentee(seq[k])]

\* Casting a request value to an ObjectId succeeds
Castable(id) == id # BadId

(* ---- schema validation (Mongoose, on create) ---- *)
ValidComment(c) == c.user # Absent /\ Castable(c.user) /\ c.text # ""

\* IssueSchema: required mentee, mentor, issueType, description; enums
ValidIssue(doc) ==
    /\ doc.mentee # Absent /\ Castable(doc.mentee)
    /\ doc.mentor # Absent /\ Castable(doc.mentor)
    /\ doc.issueType \in IssueTypes
    /\ doc.description # ""
    /\ doc.status \in Statuses
    /\ \A k \in DOMAIN doc.comments : ValidComment(doc.comments[k])

\* AchievementSchema: required mentee, mentor, type, description
ValidAchievement(doc) ==
    /\ doc.mentee # Absent /\ Castable(doc.mentee)
    /\ doc.mentor # Absent /\ Castable(doc.mentor)
    /\ doc.type \in AchievementTypes
    /\ doc.description # ""

(* ---- middleware ---- *)
\* protect: 0 when next() is called, otherwise the status it answers with.
protect(token) ==
    IF token = NoToken THEN 401
    ELSE IF token = BadToken THEN 401
    ELSE IF ~UserExists(token) THEN 404
    ELSE 0

protectError(token) ==
    IF token = NoToken \/ token = BadToken THEN "Not authorized to access this route"
    ELSE "No user found with this id"

\* A role check that calls next() for every role
isMentorSkipped(token) == 0

isMentor(token) == IF users[token].role # "mentor" THEN 403 ELSE 0

isMentee(token) == IF users[token].role # "mentee" THEN 403 ELSE 0

(* ---- responses ---- *)
Respond(op, token, arg, status, error) ==
    [NoResp EXCEPT !.op = op, !.token = token, !.arg = arg, !.status = status,
                   !.error = error, !.ran = TRUE]

\* The answer of protect / isMentor / isMentee when they do not call next().
Rejected(op, token, arg, status, error) ==
    [NoResp EXCEPT !.op = op, !.token = token, !.arg = arg, !.status = status,
                   !.error = error, !.ran = FALSE]

\* res.status(status).json({ success: false, error }): the handler in
\* calls ends with the answer
Answered(c, call, status, error) ==
    /\ calls' = [calls EXCEPT ![c] = Done(call, status, error)]
    /\ resp' = Respond(call.op, call.caller, call.arg, status, error)

\* bcrypt.hash of the pre-save hook: the stored value is not the password,
\* and bcrypt.compare accepts exactly the password it was made from.
Hash(password) == <<"bcrypt", password>>

\* UserSchema.methods.comparePassword
comparePassword(stored, candidate) == stored = Hash(candidate)

\* UserSchema: password required, minlength 6
ValidPassword(password) == password # "" /\ Len(password) >= 6

NewUser(email, password, role) ==
    [id |-> Len(users) + 1, email |-> email, password |-> Hash(password), role |-> role,
     mentees |-> <<>>, assignedMentor |-> Absent]

(* ---- authController ---- *)
\* The body of a register request
RegisterBody(password, mentorId) == [password |-> password, mentorId |-> mentorId]

\* registerMentor and registerMentee to their second await:
\* User.findOne({ email }) and the answer when a user is found
registerFindOne(c, op, email, password, mentorId) ==
    /\ calls[c].pc = "idle"
    /\ LET call == [NoCall EXCEPT !.op = op, !.arg = email,
                                  !.body = RegisterBody(password, mentorId)] IN
       IF UsersWithEmail(email) # {}
       THEN Answered(c, call, 400, "Email already in use")
       ELSE /\ calls' = [calls EXCEPT ![c] = [call EXCEPT !.pc = "create"]]
            /\ UNCHANGED resp
    /\ UNCHANGED <<users, issues, achievements, academics>>
    /\ UNCHANGED offSteps

\* POST /api/auth/register/mentor, to the await of User.create
registerMentorFindOne(c, email, password) ==
    registerFindOne(c, "registerMentor", email, password, Absent)

\* What User.create throws: the schema is validated first, the unique index
\* on email is tested by the insert.  "" when the document is stored.
CreateError(email, password) ==
    IF ~ValidPassword(password) THEN "validation failed"
    ELSE IF UsersWithEmail(email) # {} THEN "E11000 duplicate key error"
    ELSE ""

\* User.create of registerMentor, then the token and the 201 answer; what
\* create throws is answered 500 by the catch
registerMentorCreate(c) ==
    /\ calls[c].pc = "create" /\ calls[c].op = "registerMentor"
    /\ LET call == calls[c]
           error == CreateError(call.arg, call.body.password) IN
       IF error # ""
       THEN /\ Answered(c, call, 500, error)
            /\ UNCHANGED users
       ELSE /\ users' = Append(users, NewUser(call.arg, call.body.password, "mentor"))
            /\ calls' = [calls EXCEPT ![c] = Done(call, 201, "")]
            /\ resp' = [Respond(call.op, NoToken, call.arg, 201, "")
                           EXCEPT !.issued = Len(users) + 1]
    /\ UNCHANGED <<issues, achievements, academics>>
    /\ UNCHANGED offSteps

\* POST /api/auth/register/mentee, to the await of User.create
registerMenteeFindOne(c, email, password, mentorId) ==
    registerFindOne(c, "registerMentee", email, password, mentorId)

\* The 201 answer of registerMentee with the token of the new mentee
MenteeRegistered(c) ==
    /\ calls' = [calls EXCEPT ![c] = Done(@, 201, "")]
    /\ resp' = [Respond(calls[c].op, NoToken, calls[c].arg, 201, "")
                   EXCEPT !.issued = calls[c].mentee,
                          !.mentorId = calls[c].body.mentorId]

\* User.create of registerMentee: the mentee is stored without assigned
\* mentor.  Without mentorId the answer follows, otherwise the handler
\* awaits User.findById(mentorId).
registerMenteeCreate(c) ==
    /\ calls[c].pc = "create" /\ calls[c].op = "registerMentee"
    /\ LET call == calls[c]
           error == CreateError(call.arg, call.body.password) IN
       IF error # ""
       THEN /\ Answered(c, call, 500, error)
            /\ UNCHANGED users
       ELSE /\ users' = Append(users, NewUser(call.arg, call.body.password, "mentee"))
            /\ IF call.body.mentorId = Absent
               THEN /\ calls' = [calls EXCEPT ![c] =
                                    Done([call EXCEPT !.mentee = Len(users) + 1], 201, "")]
                    /\ resp' = [Respond(call.op, NoToken, call.arg, 201, "")
                                   EXCEPT !.issued = Len(users) + 1]
               ELSE /\ calls' = [calls EXCEPT ![c] =
                                    [call EXCEPT !.pc = "findMentor",
                                                 !.mentee = Len(users) + 1]]
                    /\ UNCHANGED resp
    /\ UNCHANGED <<issues, achievements, academics>>
    /\ UNCHANGED offSteps

\* An auto-assignment that does not look at the role of the user found
MentorFoundAnyRole(mentorId) ==
    /\ Castable(mentorId)
    /\ mentorId \in DOMAIN users

\* User.findById(mentorId) finds a user of role mentor; an id that does not
\* cast throws into the inner catch
MentorFound(mentorId) ==
    /\ Castable(mentorId)
    /\ mentorId \in DOMAIN users
    /\ users[mentorId].role = "mentor"

\* User.findById(mentorId) of the auto-assignment block: without a mentor
\* the registration is answered 201, otherwise mentor.mentees.push and the
\* await of mentor.save()
registerMenteeFindMentor(c) ==
    /\ calls[c].pc = "findMentor" /\ calls[c].op = "registerMentee"
    /\ IF MentorFound(calls[c].body.mentorId)
       THEN /\ calls' = [calls EXCEPT ![c].pc = "saveMentor"]
            /\ UNCHANGED resp
       ELSE MenteeRegistered(c)
    /\ UNCHANGED <<users, issues, achievements, academics>>
    /\ UNCHANGED offSteps

\* mentor.save() of the auto-assignment block: the push reaches the stored
\* roster ($push)
registerMenteeSaveMentor(c) ==
    /\ calls[c].pc = "saveMentor" /\ calls[c].op = "registerMentee"
    /\ users' = [users EXCEPT ![calls[c].body.mentorId].mentees = Append(@, calls[c].mentee)]
    /\ calls' = [calls EXCEPT ![c].pc = "saveMentee"]
    /\ UNCHANGED <<issues, achievements, academics, resp>>
    /\ UNCHANGED offSteps

\* mentee.assignedMentor = mentor._id; mentee.save(); the 201 answer
registerMenteeSaveMentee(c) ==
    /\ calls[c].pc = "saveMentee" /\ calls[c].op = "registerMentee"
    /\ users' = [users EXCEPT ![calls[c].mentee].assignedMentor = calls[c].body.mentorId]
    /\ MenteeRegistered(c)
    /\ UNCHANGED <<issues, achievements, academics>>
    /\ UNCHANGED offSteps

\* A login that tells an unknown e-mail from a wrong password
loginErrorDistinct(email) ==
    IF UsersWithEmail(email) = {} THEN "No account with this email"
    ELSE "Invalid credentials"

\* The error of both 401 answers of login
loginError(email) == "Invalid credentials"

\* POST /api/auth/login
login(email, password) ==
    /\ resp' =
         [(IF email = Absent \/ password = ""
           THEN Respond("login", NoToken, email, 400, "Please provide email and password")
           ELSE IF UsersWithEmail(email) = {}
           THEN Respond("login", NoToken, email, 401, loginError(email))
           ELSE LET user == CHOOSE u \in UsersWithEmail(email) : TRUE IN
                IF ~comparePassword(users[user].password, password)
                THEN Respond("login", NoToken, email, 401, loginError(email))
                ELSE [Respond("login", NoToken, email, 200, "") EXCEPT !.issued = user])
          EXCEPT !.password = password]
    /\ UNCHANGED <<users, issues, achievements, academics>>

(* ---- menteeController ---- *)
\* A create that does not look at assignedMentor
NoAssignedMentorSkipped(caller) == FALSE

\* !mentee.assignedMentor
NoAssignedMentor(caller) == users[caller].assignedMentor = Absent

\* An ownership check that lets every mentee through
IsIssueMenteeSkipped(issue, caller) == TRUE

\* issue.mentee.toString() !== req.user._id.toString(), negated
IsIssueMentee(issue, caller) == issue.mentee = caller

\* A mentee comment that also applies the status of the body
MenteeCommentedWithStatus(issue, caller, body) ==
    [issue EXCEPT !.comments = Append(@, [user |-> caller, text |-> body.text]),
                  !.status = IF body.status \in Statuses THEN body.status ELSE @]

\* A mentee comment that also hands the issue to the mentee's present mentor
MenteeCommentedReassigned(issue, caller, body) ==
    [issue EXCEPT !.comments = Append(@, [user |-> caller, text |-> body.text]),
                  !.mentor = users[caller].assignedMentor]

\* issue.comments.push({ user: req.user._id, text }); issue.save()
MenteeCommented(issue, caller, body) ==
    [issue EXCEPT !.comments = Append(@, [user |-> caller, text |-> body.text])]

\* The document Issue.create receives: { mentee, mentor, ...req.body }, with
\* mentor the assignedMentor the handler read.  A field of the body that is
\* present replaces the value written before the spread; status and comments
\* take the schema defaults when absent.
IssueDoc(caller, mentor, body) ==
    [id |-> Len(issues) + 1,
     mentee |-> IF body.mentee # Absent THEN body.mentee ELSE caller,
     mentor |-> IF body.mentor # Absent THEN body.mentor ELSE mentor,
     issueType |-> body.issueType,
     description |-> body.description,
     status |-> IF body.status # "" THEN body.status ELSE "Open",
     comments |-> body.comments]

\* POST /api/mentee/issues, to the await of Issue.create:
\* User.findById(req.user._id) and the test of mentee.assignedMentor
createIssueFindMentee(c, caller, body) ==
    /\ calls[c].pc = "idle"
    /\ LET call == [NoCall EXCEPT !.op = "mentee.createIssue", !.caller = caller,
                                  !.body = body] IN
       IF ~UserExists(caller)
       THEN Answered(c, call, 404, "Mentee not found")
       ELSE IF NoAssignedMentor(caller)
       THEN Answered(c, call, 400, "No assigned mentor found")
       ELSE /\ calls' = [calls EXCEPT ![c] =
                            [call EXCEPT !.pc = "create",
                                         !.mentor = users[caller].assignedMentor]]
            /\ UNCHANGED resp
    /\ UNCHANGED <<users, issues, achievements, academics>>
    /\ UNCHANGED offSteps

\* Issue.create with the mentor read before the await, and the 201 answer;
\* what the schema rejects is answered 500 by the catch
createIssueCreate(c) ==
    /\ calls[c].pc = "create" /\ calls[c].op = "mentee.createIssue"
    /\ LET call == calls[c]
           doc == IssueDoc(call.caller, call.mentor, call.body) IN
       IF ~ValidIssue(doc)
       THEN /\ Answered(c, call, 500, "validation failed")
            /\ UNCHANGED issues
       ELSE /\ issues' = Append(issues, doc)
            /\ calls' = [calls EXCEPT ![c] = Done([call EXCEPT !.arg = doc.id], 201, "")]
            /\ resp' = [Respond(call.op, call.caller, doc.id, 201, "")
                           EXCEPT !.issue = doc]
    /\ UNCHANGED <<users, achievements, academics>>
    /\ UNCHANGED offSteps

\* GET /api/mentee/issues
menteeGetIssues(caller) ==
    /\ resp' = [Respond("mentee.getIssues", caller, 0, 200, "")
                   EXCEPT !.list = IssuesOfMentee(caller)]
    /\ UNCHANGED <<users, issues, achievements, academics>>

\* GET /api/mentee/issues/:issueId
menteeGetIssue(caller, issueId) ==
    /\ resp' =
         IF ~Castable(issueId)
         THEN Respond("mentee.getIssue", caller, issueId, 500, "cast failed")
         ELSE IF issueId \notin DOMAIN issues
         THEN Respond("mentee.getIssue", caller, issueId, 404, "Issue not found")
         ELSE IF ~IsIssueMentee(issues[issueId], caller)
         THEN Respond("mentee.getIssue", caller, issueId, 403,
                      "Not authorized to access this issue")
         ELSE [Respond("mentee.getIssue", caller, issueId, 200, "")
                  EXCEPT !.issue = PopulateComments(issues[issueId])]
    /\ UNCHANGED <<users, issues, achievements, academics>>

\* POST /api/mentee/issues/:issueId/comments, to the await of issue.save():
\* Issue.findById, the ownership test and the push
menteeAddCommentLoad(c, caller, issueId, body) ==
    /\ calls[c].pc = "idle"
    /\ LET call == [NoCall EXCEPT !.op = "mentee.addComment", !.caller = caller,
                                  !.arg = issueId, !.body = body] IN
       IF body.text = ""
       THEN Answered(c, call, 400, "Comment text is required")
       ELSE IF ~Castable(issueId)
       THEN Answered(c, call, 500, "cast failed")
       ELSE IF issueId \notin DOMAIN issues
       THEN Answered(c, call, 404, "Issue not found")
       ELSE IF ~IsIssueMentee(issues[issueId], caller)
       THEN Answered(c, call, 403, "Not authorized to access this issue")
       ELSE /\ calls' = [calls EXCEPT ![c] =
                            [call EXCEPT !.pc = "save", !.loaded = issues[issueId],
                                         !.doc = MenteeCommented(issues[issueId], caller, body)]]
            /\ UNCHANGED resp
    /\ UNCHANGED <<users, issues, achievements, academics>>
    /\ UNCHANGED offSteps

\* The document Achievement.create receives: { mentee, mentor, ...req.body },
\* with mentor the assignedMentor the handler read
AchievementDoc(caller, mentor, body) ==
    [mentee |-> IF body.mentee # Absent THEN body.mentee ELSE caller,
     mentor |-> IF body.mentor # Absent THEN body.mentor ELSE mentor,
     type |-> body.type,
     description |-> body.description]

\* POST /api/mentee/achievements, to its second await:
\* User.findById(req.user._id) and the test of mentee.assignedMentor
createAchievementFindMentee(c, caller, body) ==
    /\ calls[c].pc = "idle"
    /\ LET call == [NoCall EXCEPT !.op = "mentee.createAchievement", !.caller = caller,
                                  !.body = body] IN
       IF ~UserExists(caller)
       THEN Answered(c, call, 404, "Mentee not found")
       ELSE IF NoAssignedMentor(caller)
       THEN Answered(c, call, 400, "No assigned mentor found")
       ELSE /\ calls' = [calls EXCEPT ![c] =
                            [call EXCEPT !.pc = "findMentor",
                                         !.mentor = users[caller].assignedMentor]]
            /\ UNCHANGED resp
    /\ UNCHANGED <<users, issues, achievements, academics>>
    /\ UNCHANGED offSteps

\* User.findById(mentee.assignedMentor), to the await of Achievement.create
createAchievementFindMentor(c) ==
    /\ calls[c].pc = "findMentor" /\ calls[c].op = "mentee.createAchievement"
    /\ IF ~UserExists(calls[c].mentor)
       THEN Answered(c, calls[c], 404, "Assigned mentor not found")
       ELSE /\ calls' = [calls EXCEPT ![c].pc = "create"]
            /\ UNCHANGED resp
    /\ UNCHANGED <<users, issues, achievements, academics>>
    /\ UNCHANGED offSteps

\* Achievement.create with the mentor read two awaits before, and the 201
\* answer; what the schema rejects is answered 500 by the catch
createAchievementCreate(c) ==
    /\ calls[c].pc = "create" /\ calls[c].op = "mentee.createAchievement"
    /\ LET call == calls[c]
           doc == AchievementDoc(call.caller, call.mentor, call.body) IN
       IF ~ValidAchievement(doc)
       THEN /\ Answered(c, call, 500, "validation failed")
            /\ UNCHANGED achievements
       ELSE /\ achievements' = Append(achievements, doc)
            /\ Answered(c, [call EXCEPT !.arg = Len(achievements) + 1], 201, "")
    /\ UNCHANGED <<users, issues, academics>>
    /\ UNCHANGED offSteps

\* The fields updateAcademics copies from the request
AcademicFields == {"semesterGPA", "moocCourses", "certifications", "semesterMarksheets",
                   "backlogs"}

\* Number(text): the texts of requests that are numerals
IsNumeral(text) == text \in {"-1", "0", "2"}

NumberOf(text) == CASE text = "-1" -> 0 - 1 [] text = "0" -> 0 [] text = "2" -> 2

\* Number(req.body.backlogs) || 0: NaN and 0 both give 0
BacklogsOf(text) == IF IsNumeral(text) /\ NumberOf(text) # 0 THEN NumberOf(text) ELSE 0

\* The value a field of the record takes from the request
FieldOf(body, f) == IF f = "backlogs" THEN BacklogsOf(body[f]) ELSE body[f]

\* An update that writes every field, the omitted ones with their defaults
AcademicsReplaced(record, body) ==
    [f \in DOMAIN record |->
        IF f \in AcademicFields /\ f \in DOMAIN body THEN FieldOf(body, f)
        ELSE IF f = "backlogs" THEN 0
        ELSE IF f \in AcademicFields THEN "[]"
        ELSE record[f]]

\* The assignments of the update branch: a field is written when
\* req.body.<field> !== undefined
AcademicsUpdated(record, body) ==
    [f \in DOMAIN record |->
        IF f \in AcademicFields /\ f \in DOMAIN body THEN FieldOf(body, f) ELSE record[f]]

\* newRecordData with the schema defaults for what the request omits
AcademicsCreated(caller, body) ==
    AcademicsUpdated([mentee |-> caller, semesterGPA |-> "[]", moocCourses |-> "[]",
                      certifications |-> "[]", semesterMarksheets |-> "[]", backlogs |-> 0,
                      __v |-> 0],
                     body)

\* AcademicRecordSchema: semesterGPA entries need semester and gpa,
\* semesterMarksheets entries need semester, backlogs min 0
ValidAcademic(record) ==
    /\ record.semesterGPA # "[{semester:1}]"
    /\ record.semesterMarksheets # "[{imageUrl:u}]"
    /\ record.backlogs >= 0

\* AcademicRecord.findOne({ mentee }): positions of the caller's records
AcademicsOf(caller) == {k \in DOMAIN academics : academics[k].mentee = caller}

FirstOf(S) == CHOOSE k \in S : \A j \in S : k <= j

\* The array paths of AcademicRecordSchema
AcademicArrays == {"semesterGPA", "moocCourses", "certifications", "semesterMarksheets"}

\* The arrays of subdocuments among them: the elements of an assigned array
\* are cast to new subdocuments, each with an _id of its own
DocumentArrays == {"semesterGPA", "semesterMarksheets"}

\* The paths of the record that the assignments of the handler marked as
\* modified: an assigned value that differs from the loaded one, which an
\* array of new subdocuments always does
ModifiedPaths(loaded, local, body) ==
    {f \in AcademicFields :
        \/ local[f] # loaded[f]
        \/ f \in DocumentArrays /\ f \in DOMAIN body /\ body[f] # "[]"}

\* save() of a document with an array path set sends the update with the
\* version it loaded (__v) as a condition; when the stored version is
\* another one no document matches and save() throws a VersionError
VersionError(stored, loaded, local, body) ==
    /\ ModifiedPaths(loaded, local, body) \cap AcademicArrays # {}
    /\ stored.__v # loaded.__v

\* academicRecord.save() writes the modified paths ($set) and adds one to the
\* version when an array path is among them
AcademicsSaved(stored, loaded, local, body) ==
    [f \in DOMAIN stored |->
        IF f = "__v"
        THEN IF ModifiedPaths(loaded, local, body) \cap AcademicArrays # {}
             THEN stored.__v + 1 ELSE stored.__v
        ELSE IF f \in ModifiedPaths(loaded, local, body) THEN local[f] ELSE stored[f]]

\* POST /api/mentee/academics, to its second await:
\* AcademicRecord.findOne({ mentee }) and the assignments of the branch
\* taken.  arg is the position of the record found, 0 when there is none;
\* doc is the record the handler holds.
updateAcademicsFind(c, caller, body) ==
    /\ calls[c].pc = "idle"
    /\ LET call == [NoCall EXCEPT !.op = "mentee.updateAcademics", !.caller = caller,
                                  !.body = body, !.pc = "write"] IN
       calls' = [calls EXCEPT ![c] =
          IF AcademicsOf(caller) # {}
          THEN LET k == FirstOf(AcademicsOf(caller)) IN
               [call EXCEPT !.arg = k, !.loaded = academics[k],
                            !.doc = AcademicsUpdated(academics[k], body)]
          ELSE [call EXCEPT !.doc = AcademicsCreated(caller, body)]]
    /\ UNCHANGED <<users, issues, achievements, academics, resp>>
    /\ UNCHANGED offSteps

\* The catch block of updateAcademics: 500 with the message of the error
updateAcademicsFailed(c, message) ==
    /\ calls' = [calls EXCEPT ![c] = Done(calls[c], 500, message)]
    /\ resp' = [Respond(calls[c].op, calls[c].caller, 0, 500, message)
                   EXCEPT !.body = calls[c].body]
    /\ UNCHANGED academics

\* academicRecord.save() of the record found, or AcademicRecord.create when
\* none was found, and the answer: 200 with the record the handler holds
\* (save() has added one to its version when an array path was set), or 500
\* when the schema rejects it or save() throws a VersionError
updateAcademicsWrite(c) ==
    /\ calls[c].pc = "write" /\ calls[c].op = "mentee.updateAcademics"
    /\ LET call == calls[c] IN
       IF ~ValidAcademic(call.doc)
       THEN updateAcademicsFailed(c, "validation failed")
       ELSE IF call.arg # 0 /\ VersionError(academics[call.arg], call.loaded, call.doc, call.body)
       THEN updateAcademicsFailed(c, "No matching document found")
       ELSE /\ academics' = IF call.arg # 0
                            THEN [academics EXCEPT ![call.arg] =
                                     AcademicsSaved(@, call.loaded, call.doc, call.body)]
                            ELSE Append(academics, call.doc)
            /\ calls' = [calls EXCEPT ![c] = Done(call, 200, "")]
            /\ resp' = [Respond(call.op, call.caller, call.arg, 200, "")
                           EXCEPT !.body = call.body,
                                  !.academic =
                                     IF call.arg # 0
                                     THEN AcademicsSaved(call.doc, call.loaded, call.doc, call.body)
                                     ELSE call.doc]
    /\ UNCHANGED <<users, issues, achievements>>
    /\ UNCHANGED offSteps

\* GET /api/mentee/academics
getAcademics(caller) ==
    /\ resp' =
         IF AcademicsOf(caller) = {}
         THEN Respond("mentee.getAcademics", caller, 0, 404, "Academic record not found")
         ELSE [Respond("mentee.getAcademics", caller, FirstOf(AcademicsOf(caller)), 200, "")
                  EXCEPT !.academic = academics[FirstOf(AcademicsOf(caller))]]
    /\ UNCHANGED <<users, issues, achievements, academics>>

(* ---- mentorController ---- *)
\* issue.mentor.toString() !== req.user.id.toString(), negated
IsIssueMentor(issue, caller) == issue.mentor = caller

\* GET /api/mentor/issues
mentorGetIssues(caller) ==
    /\ resp' =
         IF ~UserExists(caller)
         THEN Respond("mentor.getIssues", caller, 0, 404, "Mentor not found")
         ELSE [Respond("mentor.getIssues", caller, 0, 200, "")
                  EXCEPT !.list = PopulateMenteeAll(IssuesOfMentor(caller))]
    /\ UNCHANGED <<users, issues, achievements, academics>>

\* GET /api/mentor/issues/:issueId
mentorGetIssue(caller, issueId) ==
    /\ resp' =
         IF ~Castable(issueId)
         THEN Respond("mentor.getIssue", caller, issueId, 500, "cast failed")
         ELSE IF issueId \notin DOMAIN issues
         THEN Respond("mentor.getIssue", caller, issueId, 404, "Issue not found")
         ELSE IF ~IsIssueMentor(issues[issueId], caller)
         THEN Respond("mentor.getIssue", caller, issueId, 403,
                      "Not authorized to access this issue")
         ELSE [Respond("mentor.getIssue", caller, issueId, 200, "")
                  EXCEPT !.issue = PopulateMentee(PopulateComments(issues[issueId]))]
    /\ UNCHANGED <<users, issues, achievements, academics>>

\* A status update that refuses to leave Resolved and Closed
NewStatusGuarded(old, requested) ==
    IF old \in {"Resolved", "Closed"} THEN old
    ELSE IF requested \in {"Open", "Under Review", "Resolved", "Closed"} THEN requested
    ELSE old

\* The status written by the mentor's addComment: req.body.status when it is
\* one of the four enum values, otherwise the stored one.
NewStatus(old, requested) ==
    IF requested # "" /\ requested \in {"Open", "Under Review", "Resolved", "Closed"}
    THEN requested ELSE old

\* A comment put in front of the stored ones
MentorCommentedFirst(issue, caller, body) ==
    [issue EXCEPT !.comments = <<[user |-> caller, text |-> body.text]>> \o @,
                  !.status = NewStatus(@, body.status)]

\* issue.comments.push({ user: req.user.id, text }); the status update;
\* issue.save()
MentorCommented(issue, caller, body) ==
    [issue EXCEPT !.comments = Append(@, [user |-> caller, text |-> body.text]),
                  !.status = NewStatus(@, body.status)]

\* POST /api/mentor/issues/:issueId/comment, to the await of issue.save():
\* Issue.findById, the ownership test, the push and the status assignment
mentorAddCommentLoad(c, caller, issueId, body) ==
    /\ calls[c].pc = "idle"
    /\ LET call == [NoCall EXCEPT !.op = "mentor.addComment", !.caller = caller,
                                  !.arg = issueId, !.body = body] IN
       IF body.text = ""
       THEN Answered(c, call, 400, "Comment text is required")
       ELSE IF ~Castable(issueId)
       THEN Answered(c, call, 500, "cast failed")
       ELSE IF issueId \notin DOMAIN issues
       THEN Answered(c, call, 404, "Issue not found")
       ELSE IF ~IsIssueMentor(issues[issueId], caller)
       THEN Answered(c, call, 403, "Not authorized to comment on this issue")
       ELSE /\ calls' = [calls EXCEPT ![c] =
                            [call EXCEPT !.pc = "save", !.loaded = issues[issueId],
                                         !.doc = MentorCommented(issues[issueId], caller, body)]]
            /\ UNCHANGED resp
    /\ UNCHANGED <<users, issues, achievements, academics>>
    /\ UNCHANGED offSteps

\* A save that writes the whole document the handler holds
SavedWhole(stored, loaded, local) == local

\* issue.save() of Mongoose writes what the handler changed since it loaded
\* the document: the pushed comments are appended to the stored array
\* ($push), another field is set when it was given another value ($set).
\* No version is tested for a push.
Saved(stored, loaded, local) ==
    [f \in DOMAIN stored |->
        IF f = "comments"
        THEN stored.comments \o SubSeq(local.comments, Len(loaded.comments) + 1,
                                       Len(local.comments))
        ELSE IF local[f] # loaded[f] THEN local[f]
        ELSE stored[f]]

\* The comment a handler pushed
Pushed(call) == call.doc.comments[Len(call.doc.comments)]

\* issue.save() of addComment and the 200 answer.  The mentor controller
\* answers with the document the handler holds, the mentee controller with
\* the last comment of that document.
CommentSave(c) ==
    /\ calls[c].pc = "save"
    /\ LET call == calls[c] IN
       /\ issues' = [issues EXCEPT ![call.arg] = Saved(@, call.loaded, call.doc)]
       /\ calls' = [calls EXCEPT ![c] = Done(call, 200, "")]
       /\ resp' = [Respond(call.op, call.caller, call.arg, 200, "")
                      EXCEPT !.issue = IF call.op = "mentor.addComment" THEN call.doc
                                       ELSE NoIssue,
                             !.comment = IF call.op = "mentee.addComment" THEN Pushed(call)
                                         ELSE NoComment,
                             !.reqStatus = call.body.status,
                             !.was = issues[call.arg].status]
    /\ UNCHANGED <<users, achievements, academics>>
    /\ UNCHANGED offSteps

\* An assignment that does not look at mentee.assignedMentor
AlreadyAssignedSkipped(mentee) == FALSE

\* mentee.assignedMentor is set
AlreadyAssigned(mentee) == users[mentee].assignedMentor # Absent

\* User.findOne({ email, role: 'mentee' })
MenteeWithEmail(email) ==
    {u \in UsersWithEmail(email) : users[u].role = "mentee"}

\* POST /api/mentor/mentees/assign, to its second await: the test of the
\* e-mail, User.findOne({ email, role: 'mentee' }) and the test of
\* mentee.assignedMentor
assignMenteeFindMentee(c, caller, email) ==
    /\ calls[c].pc = "idle"
    /\ LET call == [NoCall EXCEPT !.op = "mentor.assignMentee", !.caller = caller,
                                  !.arg = email] IN
       IF email = Absent
       THEN Answered(c, call, 400, "Mentee email is required")
       ELSE IF MenteeWithEmail(email) = {}
       THEN Answered(c, call, 404, "Mentee not found with this email")
       ELSE LET mentee == CHOOSE u \in MenteeWithEmail(email) : TRUE IN
            IF AlreadyAssigned(mentee)
            THEN Answered(c, [call EXCEPT !.mentee = mentee], 400,
                          "Mentee is already assigned to a mentor")
            ELSE /\ calls' = [calls EXCEPT ![c] =
                                 [call EXCEPT !.pc = "findMentor", !.mentee = mentee]]
                 /\ UNCHANGED resp
    /\ UNCHANGED <<users, issues, achievements, academics>>
    /\ UNCHANGED offSteps

\* User.findById(req.user.id), the test of mentor.mentees and the push, to
\* the await of mentor.save()
assignMenteeFindMentor(c) ==
    /\ calls[c].pc = "findMentor" /\ calls[c].op = "mentor.assignMentee"
    /\ IF ~UserExists(calls[c].caller)
       THEN Answered(c, calls[c], 404, "Mentor not found")
       ELSE IF Includes(users[calls[c].caller].mentees, calls[c].mentee)
       THEN Answered(c, calls[c], 400, "Mentee is already assigned to you")
       ELSE /\ calls' = [calls EXCEPT ![c].pc = "saveMentor"]
            /\ UNCHANGED resp
    /\ UNCHANGED <<users, issues, achievements, academics>>
    /\ UNCHANGED offSteps

\* mentor.save(): the push reaches the stored roster ($push)
assignMenteeSaveMentor(c) ==
    /\ calls[c].pc = "saveMentor" /\ calls[c].op = "mentor.assignMentee"
    /\ users' = [users EXCEPT ![calls[c].caller].mentees = Append(@, calls[c].mentee)]
    /\ calls' = [calls EXCEPT ![c].pc = "saveMentee"]
    /\ UNCHANGED <<issues, achievements, academics, resp>>
    /\ UNCHANGED offSteps

\* The answer of assignMentee after the two saves.  The source at hand ends
\* before it; the dashboard page that sends the request reads
\* result.data.success of the answer.
assignMenteeAnswered(c) == Answered(c, calls[c], 200, "")

\* mentee.assignedMentor = mentor._id; mentee.save(), and the answer
assignMenteeSaveMentee(c) ==
    /\ calls[c].pc = "saveMentee" /\ calls[c].op = "mentor.assignMentee"
    /\ users' = [users EXCEPT ![calls[c].mentee].assignedMentor = calls[c].caller]
    /\ assignMenteeAnswered(c)
    /\ UNCHANGED <<issues, achievements, academics>>
    /\ UNCHANGED offSteps

\* POST /api/mentor/issues: Create(mentee id, issueType, description) for a
\* mentee named in the body.  The controller function is not in the source
\* at hand; the step follows the Create contract and the error taxonomy of
\* the specification: a malformed field is a ValidationError (400), a mentee
\* that does not exist NotFound (404), a mentee without assigned mentor
\* Unassigned (400); the issue stored has the mentee's assigned mentor,
\* status Open and no comments.
mentorCreateIssue(caller, body) ==
    LET doc == [id |-> Len(issues) + 1, mentee |-> body.menteeId,
                mentor |-> users[body.menteeId].assignedMentor,
                issueType |-> body.issueType, description |-> body.description,
                status |-> "Open", comments |-> <<>>] IN
    IF ~Castable(body.menteeId) \/ body.issueType \notin IssueTypes \/ body.description = ""
    THEN /\ resp' = Respond("mentor.createIssue", caller, 0, 400, "validation failed")
         /\ UNCHANGED <<users, issues, achievements, academics>>
    ELSE IF ~UserExists(body.menteeId) \/ users[body.menteeId].role # "mentee"
    THEN /\ resp' = Respond("mentor.createIssue", caller, 0, 404, "Mentee not found")
         /\ UNCHANGED <<users, issues, achievements, academics>>
    ELSE IF NoAssignedMentor(body.menteeId)
    THEN /\ resp' = Respond("mentor.createIssue", caller, 0, 400, "No assigned mentor found")
         /\ UNCHANGED <<users, issues, achievements, academics>>
    ELSE /\ issues' = Append(issues, doc)
         /\ resp' = [Respond("mentor.createIssue", caller, doc.id, 201, "")
                        EXCEPT !.issue = doc]
         /\ UNCHANGED <<users, achievements, academics>>

(* ---- useAPIService (client) ---- *)
\* Time is counted in minutes.  DEFAULT_OPTIONS.cacheTime: 5 * 60 * 1000 ms
CacheTime == 5

\* data: T | null.  "null" is null, "" a payload that is falsy in JavaScript
\* (0, '', false), the others are objects.
Payloads == {"", "A", "B"}

Truthy(data) == data # "null" /\ data # ""

\* lastUpdated: null is 0; Date.now() is never 0
InitialState == [data |-> "null", isLoading |-> FALSE, error |-> "null", lastUpdated |-> 0]

\* What the last call of execute did: op, whether apiCall() was invoked, the
\* value returned without a network call, the time of the call and the time
\* of the fetch before it (0 when there was none).
NoRet == [op |-> "none", networked |-> FALSE, value |-> "null", at |-> 0, prev |-> 0,
          id |-> 0, outcome |-> "none"]

\* A cache test that forgets the window
isCacheValidForever(skipCache) == ~skipCache /\ closure.lastUpdated # 0

\* isCacheValid, computed from the state the execute callback closed over
isCacheValid(skipCache) ==
    /\ ~skipCache
    /\ closure.lastUpdated # 0
    /\ now - closure.lastUpdated < CacheTime

\* The time of the last call of execute without skipCache
LastFetchAt == IF ret.op = "fetch" THEN ret.at ELSE ret.prev

\* execute(apiCall, { skipCache }) up to its await
execute(op, skipCache) ==
    IF isCacheValid(skipCache) /\ Truthy(closure.data)
    THEN /\ ret' = [NoRet EXCEPT !.op = op, !.value = closure.data, !.at = now,
                                 !.prev = LastFetchAt]
         /\ UNCHANGED <<state, closure, inflight, netCalls, now>>
    ELSE /\ netCalls < MaxCalls
         /\ state' = [state EXCEPT !.isLoading = TRUE, !.error = "null"]
         /\ netCalls' = netCalls + 1
         /\ inflight' = inflight \cup {netCalls + 1}
         /\ ret' = [NoRet EXCEPT !.op = op, !.networked = TRUE, !.at = now,
                                 !.prev = LastFetchAt, !.id = netCalls + 1]
         /\ UNCHANGED <<closure, now>>

\* A completion that drops the response of a call that is not the newest
resolvedLatestOnly(id, payload) ==
    /\ id \in inflight
    /\ inflight' = inflight \ {id}
    /\ state' = IF id = netCalls
                THEN [state EXCEPT !.data = payload, !.isLoading = FALSE,
                                   !.lastUpdated = now]
                ELSE state
    /\ ret' = [NoRet EXCEPT !.op = "response", !.id = id, !.outcome = "ok",
                            !.value = payload, !.prev = LastFetchAt]
    /\ UNCHANGED <<closure, netCalls, now>>

\* execute after the await, the response has success !== false
resolved(id, payload) ==
    /\ id \in inflight
    /\ inflight' = inflight \ {id}
    /\ state' = [state EXCEPT !.data = payload, !.isLoading = FALSE, !.lastUpdated = now]
    /\ ret' = [NoRet EXCEPT !.op = "response", !.id = id, !.outcome = "ok",
                            !.value = payload, !.prev = LastFetchAt]
    /\ UNCHANGED <<closure, netCalls, now>>

\* A catch block that also drops what was fetched before
rejectedClearing(id, message) ==
    /\ id \in inflight
    /\ inflight' = inflight \ {id}
    /\ state' = [state EXCEPT !.isLoading = FALSE, !.error = message, !.data = "null",
                              !.lastUpdated = 0]
    /\ ret' = [NoRet EXCEPT !.op = "response", !.id = id, !.outcome = "error",
                            !.prev = LastFetchAt]
    /\ UNCHANGED <<closure, netCalls, now>>

\* execute after the await, apiCall() rejected or the response has
\* success === false: the catch block
rejected(id, message) ==
    /\ id \in inflight
    /\ inflight' = inflight \ {id}
    /\ state' = [state EXCEPT !.isLoading = FALSE, !.error = message]
    /\ ret' = [NoRet EXCEPT !.op = "response", !.id = id, !.outcome = "error",
                            !.prev = LastFetchAt]
    /\ UNCHANGED <<closure, netCalls, now>>

\* The page calls execute(apiCall)
Fetch == execute("fetch", FALSE) /\ UNCHANGED offHook

\* refresh(apiCall) == execute(apiCall, { skipCache: true })
Refresh == execute("refresh", TRUE) /\ UNCHANGED offHook

Resolved ==
    /\ \E id \in inflight, payload \in Payloads : resolved(id, payload)
    /\ UNCHANGED offHook

RequestFailed ==
    /\ \E id \in inflight, message \in {"An error occurred"} :
          rejected(id, message)
    /\ UNCHANGED offHook

\* reset()
Reset ==
    /\ state' = InitialState
    /\ ret' = [NoRet EXCEPT !.op = "reset", !.prev = LastFetchAt]
    /\ UNCHANGED <<closure, inflight, netCalls, now>>
    /\ UNCHANGED offHook

\* React renders the component again: useCallback makes a new execute that
\* closes over the present state.data and state.lastUpdated
Render ==
    /\ closure # state
    /\ closure' = state
    /\ UNCHANGED <<state, inflight, netCalls, now, ret>>
    /\ UNCHANGED offHook

\* Date.now() advances
Tick ==
    /\ now < MaxNow
    /\ now' = now + 1
    /\ UNCHANGED <<state, closure, inflight, netCalls, ret>>
    /\ UNCHANGED offHook

NextHook ==
    \/ Fetch
    \/ Refresh
    \/ Resolved
    \/ RequestFailed
    \/ Reset
    \/ Render
    \/ Tick

(* ---- MentorAchievementsPage (client) ---- *)
\* The filters of the page
TypeFilters == {"All", "Award", "Sports"}

PositionFilters == {"All Positions", "1st"}

\* The achievements stored for the mentor, each with its type and position
StoredAchievements ==
    {[type |-> "Award", position |-> "1st"], [type |-> "Award", position |-> "N/A"],
     [type |-> "Sports", position |-> "1st"]}

\* The params the apiCall builds from the filters of its render: type is set
\* unless the filter is "All", position unless it is "All Positions"; "" is
\* a parameter that is not sent
ParamsOf(typeFilter, positionFilter) ==
    [type |-> IF typeFilter # "All" THEN typeFilter ELSE "",
     position |-> IF positionFilter # "All Positions" THEN positionFilter ELSE ""]

\* GET /api/mentor/achievements: query.type and query.position are set from
\* the parameters that are sent
getAchievements(params) ==
    {a \in StoredAchievements : /\ params.type = "" \/ a.type = params.type
                                /\ params.position = "" \/ a.position = params.position}

\* The data of an apiCall that resolves to an object with a data field
dataOfResponse(list) == "A"

\* What execute stores of the value the page's apiCall resolves to: the page
\* returns the array achievementsData, execute reads response.data of it,
\* which is undefined (falsy, as "")
dataOfArray(list) == ""

\* displayAchievements: achievementsService.data is [] or undefined, so the
\* list is debugAchievements filtered by the filters of the render
displayAchievements ==
    {a \in page.debugAchievements :
        /\ page.typeFilter = "All" \/ a.type = page.typeFilter
        /\ page.positionFilter = "All Positions" \/ a.position = page.positionFilter}

\* useAPIService<Achievement[]>([], ...): the initial data is an empty array
InitialPageState == [InitialState EXCEPT !.data = "[]"]

\* The page after its first render, the effect of that render still to run.
\* params: the parameters of the GET requests sent so far.
MountedPage == [typeFilter |-> "All", positionFilter |-> "All Positions", pc |-> "effect",
                debugAchievements |-> {}, params |-> <<>>]

\* A state setter of the filters gave them other values: React renders the
\* page again, which makes a new execute over the present state of the hook,
\* and schedules the effect whose dependencies [typeFilter, positionFilter]
\* changed
FiltersSet(typeFilter, positionFilter) ==
    /\ <<typeFilter, positionFilter>> # <<page.typeFilter, page.positionFilter>>
    /\ page' = [page EXCEPT !.typeFilter = typeFilter, !.positionFilter = positionFilter,
                            !.pc = "effect"]
    /\ closure' = state
    /\ UNCHANGED <<state, inflight, netCalls, now, ret>>
    /\ UNCHANGED offPage

\* setTypeFilter(filter) of the type select
SetTypeFilter ==
    /\ page.pc = "idle"
    /\ \E filter \in TypeFilters : FiltersSet(filter, page.positionFilter)

\* setPositionFilter(filter) of the position select
SetPositionFilter ==
    /\ page.pc = "idle"
    /\ \E filter \in PositionFilters : FiltersSet(page.typeFilter, filter)

\* resetFilters(): both setters in one event, one render
ResetFilters ==
    /\ page.pc = "idle"
    /\ FiltersSet("All", "All Positions")

\* The apiCall of fetchAchievements and of refreshData is sent with the
\* filters of the render
Sent ==
    page' = [page EXCEPT !.pc = "idle",
                         !.params = IF ret'.networked
                                    THEN Append(page.params,
                                                ParamsOf(page.typeFilter, page.positionFilter))
                                    ELSE page.params]

\* The effect: fetchAchievements() calls achievementsService.execute
FetchAchievements ==
    /\ page.pc = "effect"
    /\ execute("fetch", FALSE)
    /\ Sent
    /\ UNCHANGED offPage

\* refreshData of the page, the Refresh button, which is disabled while
\* achievementsService.isLoading: achievementsService.refresh with the same
\* apiCall
RefreshAchievements ==
    /\ page.pc = "idle" /\ ~state.isLoading
    /\ execute("refresh", TRUE)
    /\ Sent
    /\ UNCHANGED offPage

\* mentorApi.getAchievements answers: the apiCall stores the list in
\* debugAchievements and returns it, execute stores response.data
AchievementsAnswered ==
    /\ \E id \in inflight :
          /\ resolved(id, dataOfArray(getAchievements(page.params[id])))
          /\ page' = [page EXCEPT !.debugAchievements = getAchievements(page.params[id])]
    /\ UNCHANGED offPage

\* mentorApi.getAchievements rejects
AchievementsFailed ==
    /\ \E id \in inflight : rejected(id, "Failed to load achievements data")
    /\ UNCHANGED <<page, offPage>>

PageTick ==
    /\ now < MaxNow
    /\ now' = now + 1
    /\ UNCHANGED <<state, closure, inflight, netCalls, ret, page>>
    /\ UNCHANGED offPage

NextPage ==
    \/ SetTypeFilter
    \/ SetPositionFilter
    \/ ResetFilters
    \/ FetchAchievements
    \/ RefreshAchievements
    \/ AchievementsAnswered
    \/ AchievementsFailed
    \/ PageTick

(* ---- pages that send a mutating call (client) ---- *)
\* The mentor's issue page, the mentee's issue page and the mentor dashboard
ViewPages == {"mentor.issue", "mentee.issue", "mentor.dashboard"}

\* totalMentees of an object that has no such field (undefined), and what
\* undefined + 1 gives (NaN)
Undefined == -1
NotANumber == -2

\* prev.totalMentees + 1
PlusOne(n) == IF n < 0 THEN NotANumber ELSE n + 1

\* A request of the page: not sent ("none"), on its way to the server
\* ("sent"), served with its answer on the way back ("served"), and for the
\* POST request also "loaded": the handler has read its document and not yet
\* saved.  read: the number the handler read when it served the request.
NoRequest == [at |-> "none", read |-> 0]

\* stored: the number of comments of the issue, or the length of the mentor's
\* roster, on the server.  shown: the number of comments of the issue on
\* display, or totalMentees of dashboardData; present: issue / issueData is
\* not null; loading: loading / isLoading of the issue pages.  fetches: the
\* GET requests sent since the page was constructed.  mount: the GET request
\* of the mount effect; post: the POST request of the submit handler.  pc:
\* where the submit handler stands; isAssigning: it has not returned
\* (isSubmitting on the issue pages); sees: the isRefreshing of the render in
\* which the form was submitted, which the refreshData of that handler tests.
\* runs: the calls of refreshData that passed the test, each with the handler
\* that made it, the await it stands at and the GET request it waits for.
\* refreshed: the toasts 'Dashboard refreshed successfully'.  ok: how the last
\* POST request ended.  service: totalMentees of dashboardService.data, once
\* execute has stored data; changed: execute has stored data that the effect
\* on dashboardService.data has not copied to dashboardData yet.
NoView == [page |-> "none", pc |-> "idle", shown |-> 0, present |-> FALSE, loading |-> FALSE,
           stored |-> 0, fetches |-> 0, mount |-> NoRequest, post |-> NoRequest,
           service |-> 0, changed |-> FALSE,
           isRefreshing |-> FALSE, isAssigning |-> FALSE, sees |-> FALSE, runs |-> <<>>,
           refreshed |-> 0, ok |-> FALSE]

\* useState's initial values of page p: the issue pages start with
\* loading = true and no issue, the dashboard with totalMentees 0
ConstructedView(p) ==
    [NoView EXCEPT !.page = p, !.loading = (p # "mentor.dashboard"),
                   !.present = (p = "mentor.dashboard")]

\* The POST request of the page has not been saved by the server yet
PostToSave(v) == v.post.at \in {"sent", "loaded"}

\* The submit handler of the dashboard will call a refreshData that passes
\* its test
RunToCome(v) == v.page = "mentor.dashboard" /\ v.post.at # "none" /\ ~v.sees

\* Somebody else adds a comment to the issue, or another mentee registers
\* with this mentor's id
ServerChanges ==
    /\ view.stored + (IF PostToSave(view) THEN 1 ELSE 0) < MaxDocs
    /\ view' = [view EXCEPT !.stored = view.stored + 1]
    /\ UNCHANGED offView

\* The mount effect: fetchIssueDetails() / fetchIssueDetail() /
\* fetchDashboardData() to the await of the GET request
Mounted ==
    /\ view.mount.at = "none" /\ view.fetches = 0
    /\ view' = [view EXCEPT !.mount.at = "sent", !.fetches = view.fetches + 1]
    /\ UNCHANGED offView

\* The server serves a GET request of the page: getIssue reads the issue,
\* getDashboard reads the mentor and takes mentor.mentees.length
ServeGet ==
    /\ \/ /\ view.mount.at = "sent"
          /\ view' = [view EXCEPT !.mount = [at |-> "served", read |-> view.stored]]
       \/ \E r \in DOMAIN view.runs :
             /\ view.runs[r].at = "sent"
             /\ view' = [view EXCEPT !.runs[r].at = "served", !.runs[r].read = view.stored]
    /\ UNCHANGED offView

\* The GET request of the mount effect is answered.  With success the issue
\* pages set the issue of the answer, and on the dashboard execute stores the
\* transformed answer, response.data.data, as dashboardService.data; a
\* failure is caught.  The issue pages end loading.
MountAnswered ==
    /\ \E answered \in BOOLEAN :
          /\ view.mount.at \in (IF answered THEN {"served"} ELSE {"sent", "served"})
          /\ view' = IF ~answered
                     THEN [view EXCEPT !.mount = [NoRequest EXCEPT !.at = "done"],
                                       !.loading = FALSE]
                     ELSE IF view.page = "mentor.dashboard"
                     THEN [view EXCEPT !.mount = [NoRequest EXCEPT !.at = "done"],
                                       !.service = view.mount.read, !.changed = TRUE]
                     ELSE [view EXCEPT !.mount = [NoRequest EXCEPT !.at = "done"],
                                       !.shown = view.mount.read, !.present = TRUE,
                                       !.loading = FALSE]
    /\ UNCHANGED offView

\* The effect on [dashboardService.data], run after the render that follows
\* a change of the data: setDashboardData(dashboardService.data).  The
\* callbacks of answers that have arrived meanwhile run before it.
DataEffect ==
    /\ view.changed
    /\ view' = [view EXCEPT !.shown = view.service, !.changed = FALSE]
    /\ UNCHANGED offView

\* handleSubmitComment / handleCommentSubmit / handleAssignMentee to the await
\* of the POST request.  The issue pages render the form once an issue is
\* loaded, the dashboard once the mount effects have run; the form is
\* disabled while the handler runs.  The user acts on a page that has
\* rendered and run its effects.
ViewSubmit ==
    /\ view.pc = "idle" /\ ~view.isAssigning
    /\ view.mount.at # "none" /\ ~view.changed
    /\ view.page # "mentor.dashboard" => ~view.loading /\ view.present
    /\ view.stored < MaxDocs
    /\ view.page = "mentor.dashboard" /\ ~view.isRefreshing => Len(view.runs) < MaxRuns
    /\ view' = [view EXCEPT !.pc = "posting", !.isAssigning = TRUE,
                            !.sees = view.isRefreshing,
                            !.post = [NoRequest EXCEPT !.at = "sent"]]
    /\ UNCHANGED offView

\* addComment / assignMentee on the server, to the await of save(): the
\* handler has read the issue (the mentee and the mentor)
ServePostLoad ==
    /\ view.post.at = "sent"
    /\ view' = [view EXCEPT !.post = [at |-> "loaded", read |-> view.stored]]
    /\ UNCHANGED offView

\* save() of the handler: the comment (the mentee) is pushed to what is
\* stored, and the handler answers with the document it holds
ServePostSave ==
    /\ view.post.at = "loaded"
    /\ view' = [view EXCEPT !.post.at = "served", !.stored = view.stored + 1]
    /\ UNCHANGED offView

\* refreshData() to its first await, called by a handler whose render saw
\* isRefreshing as sees: nothing when that is true; otherwise
\* setIsRefreshing(true) and GET /mentor/dashboard
refreshData(v, sees, by) ==
    IF sees
    THEN v
    ELSE [v EXCEPT !.isRefreshing = TRUE, !.fetches = v.fetches + 1,
                   !.runs = Append(v.runs, [by |-> by, pc |-> "first", at |-> "sent",
                                            read |-> 0])]

\* The POST request is answered with success: the mentor's issue page
\* replaces the issue by the one of the answer (the issue the handler read
\* with the new comment), the mentee's issue page appends the comment of the
\* answer, the dashboard adds one to totalMentees.
Patched(v, read) ==
    CASE v.page = "mentor.issue" -> [v EXCEPT !.shown = read + 1]
      [] v.page = "mentee.issue" -> [v EXCEPT !.shown = v.shown + 1]
      [] v.page = "mentor.dashboard" -> [v EXCEPT !.shown = PlusOne(v.shown)]

\* The submit handler after the await of the POST request, answered with
\* success: the page is patched.  The issue pages return; the dashboard
\* awaits the refreshData of its render and returns at once when that one
\* does.
ViewPosted ==
    /\ view.post.at = "served"
    /\ LET patched == Patched([view EXCEPT !.ok = TRUE, !.post = NoRequest],
                              view.post.read) IN
       view' = IF view.page = "mentor.dashboard" /\ ~view.sees
               THEN [refreshData(patched, view.sees, "assign") EXCEPT !.pc = "refreshing"]
               ELSE [patched EXCEPT !.pc = "idle", !.isAssigning = FALSE]
    /\ UNCHANGED offView

\* The POST request fails (an error answer of the server, or no answer): the
\* catch block shows a toast
ViewPostFailed ==
    /\ view.post.at \in {"sent", "loaded", "served"}
    /\ view' = [view EXCEPT !.pc = "idle", !.ok = FALSE, !.isAssigning = FALSE,
                            !.post = NoRequest]
    /\ UNCHANGED offView

\* The Refresh button of the dashboard, disabled while isRefreshing
RefreshClicked ==
    /\ view.page = "mentor.dashboard" /\ view.mount.at # "none" /\ ~view.changed
    /\ ~view.isRefreshing
    /\ Len(view.runs) + (IF RunToCome(view) THEN 1 ELSE 0) < MaxRuns
    /\ view' = refreshData(view, view.isRefreshing, "button")
    /\ UNCHANGED offView

\* The finally block of refreshData, setIsRefreshing(false), and the rest of
\* handleAssignMentee when it awaited this call: setIsAssigning(false)
Finished(v, r) ==
    [v EXCEPT !.runs[r] = [by |-> v.runs[r].by, pc |-> "done", at |-> "none", read |-> 0],
              !.isRefreshing = FALSE,
              !.pc = IF v.runs[r].by = "assign" THEN "idle" ELSE @,
              !.isAssigning = IF v.runs[r].by = "assign" THEN FALSE ELSE @]

\* refreshData after its first await.  With data in the answer:
\* setDashboardData(response.data.data) and dashboardService.refresh, which
\* sends GET /mentor/dashboard again.  Without data, or when the request
\* fails: a toast and the finally block.
RefreshAnswered ==
    /\ \E r \in DOMAIN view.runs, answered \in BOOLEAN :
          /\ view.runs[r].pc = "first"
          /\ answered => view.runs[r].at = "served"
          /\ view' = IF answered
                     THEN [view EXCEPT !.shown = view.runs[r].read,
                                       !.runs[r] = [by |-> view.runs[r].by, pc |-> "second",
                                                    at |-> "sent", read |-> 0],
                                       !.fetches = view.fetches + 1]
                     ELSE Finished(view, r)
    /\ UNCHANGED offView

\* refreshData after its second await.  With success execute has stored the
\* body of the answer, { success, data }, as dashboardService.data, an
\* object without totalMentees; then the toast.  A failure is caught.  Both
\* end in the finally block.
RefreshedService ==
    /\ \E r \in DOMAIN view.runs, answered \in BOOLEAN :
          /\ view.runs[r].pc = "second"
          /\ answered => view.runs[r].at = "served"
          /\ view' = IF answered
                     THEN Finished([view EXCEPT !.service = Undefined, !.changed = TRUE,
                                                !.refreshed = view.refreshed + 1], r)
                     ELSE Finished(view, r)
    /\ UNCHANGED offView

NextView ==
    \/ ServerChanges
    \/ Mounted
    \/ ServeGet
    \/ MountAnswered
    \/ DataEffect
    \/ ViewSubmit
    \/ ServePostLoad
    \/ ServePostSave
    \/ ViewPosted
    \/ ViewPostFailed
    \/ RefreshClicked
    \/ RefreshAnswered
    \/ RefreshedService

(* ---- connectDB: the connection loop of the server process ---- *)
MAX_RETRY_COUNT == 5

\* Backoff without the ceiling
getRetryTimeUncapped(retry) == 2 ^ retry

\* getRetryTime, in seconds: Math.min(Math.pow(2, retry) * 1000, 30000) ms
getRetryTime(retry) == IF 2 ^ retry < 30 THEN 2 ^ retry ELSE 30

\* isConnecting, retryCount and retryTimeoutId of the module (timer is the
\* delay of the pending timeout, 0 when none is pending); attempt: the promise
\* of mongoose.connect ("pending", "failed" when it has failed and the
\* rejection is still to be delivered to connectDB); conn: the connection;
\* events: the 'disconnected' and 'error' events emitted and not yet handled;
\* reattempts: the calls of mongoose.connect made by the retry timer since
\* the connection was last established.
NoDb == [started |-> FALSE, isConnecting |-> FALSE, retryCount |-> 0, timer |-> 0,
         attempt |-> "none", conn |-> "disconnected", events |-> {}, exited |-> FALSE,
         reattempts |-> 0]

\* The body of connectDB to its await; retried tells a call by the timer
connectDB(d, retried) ==
    IF d.isConnecting
    THEN d
    ELSE [d EXCEPT !.isConnecting = TRUE, !.attempt = "pending",
                   !.reattempts = IF retried THEN d.reattempts + 1 ELSE d.reattempts]

\* handleConnectionError: count and schedule the retry, or exit
handleConnectionError(d) ==
    IF d.retryCount < MAX_RETRY_COUNT
    THEN [d EXCEPT !.retryCount = d.retryCount + 1,
                   !.timer = getRetryTime(d.retryCount + 1)]
    ELSE [d EXCEPT !.exited = TRUE, !.timer = 0]

\* The server starts and calls connectDB()
StartServer ==
    /\ ~db.started
    /\ db' = connectDB([db EXCEPT !.started = TRUE], FALSE)
    /\ UNCHANGED offDb

\* mongoose.connect resolves
ConnectResolved ==
    /\ ~db.exited /\ db.attempt = "pending"
    /\ db' = [db EXCEPT !.attempt = "none", !.conn = "connected", !.isConnecting = FALSE,
                        !.retryCount = 0, !.reattempts = 0]
    /\ UNCHANGED offDb

\* The attempt fails in the driver: the promise will reject, and the
\* connection emits 'disconnected', 'error', both or neither
ConnectFails ==
    /\ ~db.exited /\ db.attempt = "pending"
    /\ \E emitted \in SUBSET {"disconnected", "error"} :
          db' = [db EXCEPT !.attempt = "failed", !.conn = "disconnected",
                           !.events = db.events \cup emitted]
    /\ UNCHANGED offDb

\* The catch block of connectDB
ConnectRejected ==
    /\ ~db.exited /\ db.attempt = "failed"
    /\ db' = handleConnectionError([db EXCEPT !.attempt = "none", !.isConnecting = FALSE])
    /\ UNCHANGED offDb

\* mongoose.connection.on('disconnected') and on('error') with a
\* MongoNetworkError: both call handleConnectionError
ConnectionEventHandled ==
    /\ ~db.exited
    /\ \E event \in db.events :
          db' = handleConnectionError([db EXCEPT !.events = db.events \ {event}])
    /\ UNCHANGED offDb

\* The retry timeout fires: connectDB()
RetryTimerFires ==
    /\ ~db.exited /\ db.timer # 0
    /\ db' = connectDB([db EXCEPT !.timer = 0], TRUE)
    /\ UNCHANGED offDb

\* An established connection is lost
ConnectionLost ==
    /\ ~db.exited /\ db.conn = "connected" /\ db.attempt = "none"
    /\ db' = [db EXCEPT !.conn = "disconnected", !.events = db.events \cup {"disconnected"}]
    /\ UNCHANGED offDb

NextDb ==
    \/ StartServer
    \/ ConnectResolved
    \/ ConnectFails
    \/ ConnectRejected
    \/ ConnectionEventHandled
    \/ RetryTimerFires
    \/ ConnectionLost

\* No page is open and the connection loop has not started
InitBrowser ==
    /\ page = [MountedPage EXCEPT !.pc = "closed"]
    /\ view = NoView
    /\ db = NoDb

(* ---- IssueNotifications (client) ---- *)
DAYS_THRESHOLD == 3

\* Math.ceil(diffTime / (1000 * 60 * 60 * 24)), the age counted in hours
DiffDays(ageHours) == (ageHours + 23) \div 24

\* The filter of checkPendingIssues
OldPending(issue) ==
    /\ issue.status \in {"Open", "Under Review"}
    /\ DiffDays(issue.age) >= DAYS_THRESHOLD

OldPendingIssues(list) == SelectSeq(list, OldPending)

\* The issue lists mentorApi.getIssues() answers with: up to two issues, each
\* with a status and the hours since createdAt
PolledIssues == [status : Statuses, age : {1, 48, 49, 72, 73}]

PolledLists == {<<>>} \cup {<<i>> : i \in PolledIssues}
                 \cup {<<i, j>> : i \in {x \in PolledIssues : x.age = 73},
                                 j \in {x \in PolledIssues : x.status = "Open"}}

InitPoller ==
    /\ mounted = "no"
    /\ hasShownNotifications = FALSE
    /\ callbackSees = FALSE
    /\ pendingChecks = 0
    /\ ticks = 0
    /\ toasts = <<>>

\* checkPendingIssues up to its await, as called by the effect and by the
\* interval: the function of the render in which the effect ran, with that
\* render's hasShownNotifications
checkPendingIssues(sees) ==
    IF sees THEN UNCHANGED pendingChecks ELSE pendingChecks' = pendingChecks + 1

\* The effect of the first render: check at once, then setInterval.  Its
\* dependencies [autoCheck, checkInterval] do not change afterwards, so it
\* does not run again.
Mount ==
    /\ mounted = "no"
    /\ mounted' = "yes"
    /\ callbackSees' = hasShownNotifications
    /\ checkPendingIssues(hasShownNotifications)
    /\ UNCHANGED <<hasShownNotifications, ticks, toasts>>
    /\ UNCHANGED offPoller

\* The interval fires
IntervalTick ==
    /\ mounted = "yes" /\ ticks < MaxTicks
    /\ ticks' = ticks + 1
    /\ checkPendingIssues(callbackSees)
    /\ UNCHANGED <<mounted, hasShownNotifications, callbackSees, toasts>>
    /\ UNCHANGED offPoller

\* checkPendingIssues after the await: the response has success true
CheckAnswered ==
    /\ pendingChecks > 0
    /\ pendingChecks' = pendingChecks - 1
    /\ \E list \in PolledLists :
          IF Len(OldPendingIssues(list)) > 0
          THEN /\ toasts' = Append(toasts, [count |-> Len(OldPendingIssues(list)),
                                            issues |-> OldPendingIssues(list)])
               /\ hasShownNotifications' = TRUE
          ELSE UNCHANGED <<toasts, hasShownNotifications>>
    /\ UNCHANGED <<mounted, callbackSees, ticks>>
    /\ UNCHANGED offPoller

\* checkPendingIssues after the await: success is false or the call threw
CheckFailed ==
    /\ pendingChecks > 0
    /\ pendingChecks' = pendingChecks - 1
    /\ UNCHANGED <<mounted, hasShownNotifications, callbackSees, ticks, toasts>>
    /\ UNCHANGED offPoller

\* The cleanup of the effect: clearInterval
Unmount ==
    /\ mounted = "yes"
    /\ mounted' = "gone"
    /\ UNCHANGED <<hasShownNotifications, callbackSees, pendingChecks, ticks, toasts>>
    /\ UNCHANGED offPoller

NextPoller ==
    \/ Mount
    \/ IntervalTick
    \/ CheckAnswered
    \/ CheckFailed
    \/ Unmount

(* ---- GET /api/health ---- *)
\* mongoose.connection.readyState
ReadyStates == {"disconnected", "connected", "connecting", "disconnecting"}

NoHealth == [code |-> 0, status |-> "", state |-> "", connected |-> FALSE,
             responsive |-> FALSE]

NoHealthCall == [pc |-> "none", state |-> "", connected |-> FALSE]

\* The process has started and connectDB() has not been called yet
InitHealth ==
    /\ readyState = "disconnected"
    /\ pingAnswers = TRUE
    /\ buildThrows = FALSE
    /\ healthCall = NoHealthCall
    /\ healthResp = NoHealth

\* dbStatus.getMongoStatus
getMongoStatus == [state |-> readyState, connected |-> readyState = "connected"]

\* dbStatus.pingDatabase for a call that read readyState at its start: false
\* at once unless it was connected then; otherwise admin().ping() is awaited
\* and the result is true when the ping is answered, false when it throws.
\* readyState is not read again after the await.
pingDatabase(wasConnected) == wasConnected /\ pingAnswers

\* The status code of the catch block
CatchCode == 500

\* The handler to its await: getMongoStatus(), pingDatabase() started
HealthRequest ==
    /\ healthCall.pc = "none"
    /\ healthCall' = [pc |-> "ping", state |-> getMongoStatus.state,
                      connected |-> getMongoStatus.connected]
    /\ healthResp' = NoHealth
    /\ UNCHANGED <<readyState, pingAnswers, buildThrows>>
    /\ UNCHANGED offHealth

\* The handler after the await: the response is built and sent, or the catch
\* block answers
HealthRespond ==
    /\ healthCall.pc = "ping"
    /\ healthCall' = NoHealthCall
    /\ healthResp' =
          IF buildThrows
          THEN [NoHealth EXCEPT !.code = CatchCode, !.status = "down"]
          ELSE [code |-> 200,
                status |-> IF healthCall.connected /\ pingDatabase(healthCall.connected)
                           THEN "up" ELSE "degraded",
                state |-> healthCall.state,
                connected |-> healthCall.connected,
                responsive |-> pingDatabase(healthCall.connected)]
    /\ UNCHANGED <<readyState, pingAnswers, buildThrows>>
    /\ UNCHANGED offHealth

\* The connection changes state: connect, connected, close, drop
ConnectionEvent ==
    /\ \E next \in ReadyStates :
          /\ \/ readyState = "disconnected" /\ next = "connecting"
             \/ readyState = "connecting" /\ next \in {"connected", "disconnected"}
             \/ readyState = "connected" /\ next \in {"disconnecting", "disconnected"}
             \/ readyState = "disconnecting" /\ next = "disconnected"
          /\ readyState' = next
    /\ UNCHANGED <<pingAnswers, buildThrows, healthCall, healthResp>>
    /\ UNCHANGED offHealth

\* The database starts or stops answering admin().ping()
PingChange ==
    /\ pingAnswers' = ~pingAnswers
    /\ UNCHANGED <<readyState, buildThrows, healthCall, healthResp>>
    /\ UNCHANGED offHealth

\* Something the handler calls while building the response (os, require of
\* package.json, logger.warn, res.json) starts or stops throwing
HostChange ==
    /\ buildThrows' = ~buildThrows
    /\ UNCHANGED <<readyState, pingAnswers, healthCall, healthResp>>
    /\ UNCHANGED offHealth

NextHealth ==
    \/ HealthRequest
    \/ HealthRespond
    \/ ConnectionEvent
    \/ PingChange
    \/ HostChange

(* ---- request inputs ---- *)
Tokens == {NoToken, BadToken} \cup DOMAIN users

\* An existing issue id, an id that casts but matches no issue, a malformed id
IssueIdParams == (1..(Len(issues) + 1)) \cup {BadId}

\* Passwords of the register form: missing, too short, accepted
RegisterPasswords == {"", "abc", "secret1"}

\* Passwords of the login form: missing, the registered one, another one
LoginPasswords == {"", "secret1", "wrong00"}

Texts == {"", "please elaborate"}

\* What the client form sends, and that body with one more field set
PlainIssueBody ==
    [issueType |-> "Academic", description |-> "d", mentee |-> Absent, mentor |-> Absent,
     status |-> "", comments |-> <<>>]

IssueBodies ==
    {PlainIssueBody,
     [PlainIssueBody EXCEPT !.issueType = "Bogus"],
     [PlainIssueBody EXCEPT !.description = ""],
     [PlainIssueBody EXCEPT !.status = "Closed"],
     [PlainIssueBody EXCEPT !.status = "Bogus"],
     [PlainIssueBody EXCEPT !.comments = <<[user |-> 1, text |-> "seeded"]>>]}
    \cup {[PlainIssueBody EXCEPT !.mentee = u] : u \in {1}}
    \cup {[PlainIssueBody EXCEPT !.mentor = u] : u \in {1, BadId}}

\* The bodies of the mentor's create form: a mentee id that does not cast,
\* one of a user, one of no user; a type inside and outside the enum
MentorIssueBodies ==
    [menteeId : {BadId} \cup (1..(Len(users) + 1)), issueType : {"Academic", "Bogus"},
     description : {"", "d"}]

CommentBodies ==
    [text : Texts, status : {"", "Bogus"} \cup Statuses]

PlainAchievementBody ==
    [type |-> "Award", description |-> "d", mentee |-> Absent, mentor |-> Absent]

AchievementBodies ==
    {PlainAchievementBody,
     [PlainAchievementBody EXCEPT !.type = ""]}

\* The values a request gives to a field of the academic record
AcademicValues(f) ==
    CASE f = "semesterGPA" -> {"[]", "[{semester:1,gpa:8}]", "[{semester:1}]"}
      [] f = "moocCourses" -> {"[]", "[ML]"}
      [] f = "certifications" -> {"[AWS]"}
      [] f = "semesterMarksheets" -> {"[{semester:1,imageUrl:u}]"}
      [] f = "backlogs" -> {"-1", "0", "2", "abc"}

\* Every body over the five fields: each field omitted or given a value
AcademicsBodies ==
    UNION {{b \in [S -> UNION {AcademicValues(f) : f \in S}] :
               \A f \in S : b[f] \in AcademicValues(f)} : S \in SUBSET AcademicFields}

\* The body of the backlogs form
BacklogsBodies == {b \in AcademicsBodies : DOMAIN b = {"backlogs"} /\ b["backlogs"] = "2"}

\* Academics bodies of concurrent requests: the backlogs form, and a body
\* that carries an array
RaceAcademicsBodies ==
    {b \in AcademicsBodies : DOMAIN b \in {{"backlogs"}, {"moocCourses"}, {"semesterGPA"}}}

\* Comment bodies of concurrent requests
RaceCommentBodies == [text : {"first", "second"}, status : {"", "Open", "Resolved"}]

\* Every academic record stays below version n when each handler in flight
\* saves
VersionsBelow(n) ==
    \A k \in DOMAIN academics :
        academics[k].__v + Cardinality({c \in Handlers : calls[c].pc = "write"}) < n

(* ---- routes: router.use(protect); router.use(isMentee / isMentor) ---- *)
\* The status the middleware chain of /api/mentee answers with, 0 when the
\* controller is reached.
MenteeGate(token) ==
    IF protect(token) # 0 THEN protect(token) ELSE isMentee(token)

MenteeGateError(token) ==
    IF protect(token) # 0 THEN protectError(token)
    ELSE "Only mentees can access this route"

MentorGate(token) ==
    IF protect(token) # 0 THEN protect(token) ELSE isMentor(token)

MentorGateError(token) ==
    IF protect(token) # 0 THEN protectError(token)
    ELSE "Only mentors can access this route"

\* Requests are served one at a time: the next one is taken up when the
\* response to the previous one has been sent.
Idle == resp = NoResp /\ \A c \in Handlers : calls[c].pc = "idle"

\* The handler that serves the request when they are served one at a time
Serving == FirstOf(Handlers)

\* res.json(...) has been written out
Deliver ==
    /\ resp # NoResp /\ UNCHANGED offSteps
    /\ resp' = NoResp
    /\ calls' = [c \in Handlers |-> NoCall]
    /\ UNCHANGED <<users, issues, achievements, academics>>

\* A request to any route of /api/mentee that protect or isMentee answers
MenteeRejected ==
    /\ Idle /\ UNCHANGED offServer
    /\ \E token \in Tokens :
          /\ MenteeGate(token) # 0
          /\ resp' = Rejected("mentee", token, 0, MenteeGate(token), MenteeGateError(token))
          /\ UNCHANGED <<users, issues, achievements, academics>>

\* A request to any route of /api/mentor that protect or isMentor answers
MentorRejected ==
    /\ Idle /\ UNCHANGED offServer
    /\ \E token \in Tokens :
          /\ MentorGate(token) # 0
          /\ resp' = Rejected("mentor", token, 0, MentorGate(token), MentorGateError(token))
          /\ UNCHANGED <<users, issues, achievements, academics>>

RegisterMentor ==
    /\ Idle /\ Docs < MaxDocs
    /\ \E email \in EmailsInUse, password \in RegisterPasswords :
          registerMentorFindOne(Serving, email, password)

RegisterMentee ==
    /\ Idle /\ Docs < MaxDocs
    /\ \E email \in EmailsInUse, password \in RegisterPasswords,
          mentorId \in {Absent, BadId} \cup UserIds :
          registerMenteeFindOne(Serving, email, password, mentorId)

Login ==
    /\ Idle /\ UNCHANGED offServer
    /\ \E email \in {Absent} \cup EmailsInUse, password \in LoginPasswords :
          login(email, password)

MenteeCreateIssue ==
    /\ Idle
    /\ \E token \in Tokens :
          /\ MenteeGate(token) = 0
          /\ \E body \in IssueBodies :
                /\ Docs + Len(body.comments) < MaxDocs
                /\ createIssueFindMentee(Serving, token, body)

MenteeGetIssues ==
    /\ Idle /\ UNCHANGED offServer
    /\ \E token \in Tokens : MenteeGate(token) = 0 /\ menteeGetIssues(token)

MenteeGetIssue ==
    /\ Idle /\ UNCHANGED offServer
    /\ \E token \in Tokens :
          MenteeGate(token) = 0 /\ \E id \in IssueIdParams : menteeGetIssue(token, id)

MenteeAddComment ==
    /\ Idle /\ Docs < MaxDocs
    /\ \E token \in Tokens :
          /\ MenteeGate(token) = 0
          /\ \E id \in IssueIdParams, body \in CommentBodies :
                menteeAddCommentLoad(Serving, token, id, body)

MenteeCreateAchievement ==
    /\ Idle /\ Docs < MaxDocs
    /\ \E token \in Tokens :
          /\ MenteeGate(token) = 0
          /\ \E body \in AchievementBodies :
                createAchievementFindMentee(Serving, token, body)

\* POST /api/mentee/academics with the body of the backlogs form
MenteeUpdateAcademics ==
    /\ Idle /\ Docs < MaxDocs /\ VersionsBelow(MaxVersion)
    /\ \E token \in Tokens :
          /\ MenteeGate(token) = 0
          /\ \E body \in BacklogsBodies : updateAcademicsFind(Serving, token, body)

\* POST /api/mentee/academics with any body
MenteeUpdateAcademicsAny ==
    /\ Idle /\ Docs < MaxDocs /\ VersionsBelow(MaxVersion)
    /\ \E token \in Tokens :
          /\ MenteeGate(token) = 0
          /\ \E body \in AcademicsBodies : updateAcademicsFind(Serving, token, body)

MenteeGetAcademics ==
    /\ Idle /\ UNCHANGED offServer
    /\ \E token \in Tokens : MenteeGate(token) = 0 /\ getAcademics(token)

MentorGetIssues ==
    /\ Idle /\ UNCHANGED offServer
    /\ \E token \in Tokens : MentorGate(token) = 0 /\ mentorGetIssues(token)

MentorGetIssue ==
    /\ Idle /\ UNCHANGED offServer
    /\ \E token \in Tokens :
          MentorGate(token) = 0 /\ \E id \in IssueIdParams : mentorGetIssue(token, id)

MentorAddComment ==
    /\ Idle /\ Docs < MaxDocs
    /\ \E token \in Tokens :
          /\ MentorGate(token) = 0
          /\ \E id \in IssueIdParams, body \in CommentBodies :
                mentorAddCommentLoad(Serving, token, id, body)

\* POST /api/mentor/issues with the fields the create form sends
MentorCreateIssue ==
    /\ Idle /\ Docs < MaxDocs /\ UNCHANGED offServer
    /\ \E token \in Tokens :
          /\ MentorGate(token) = 0
          /\ \E body \in MentorIssueBodies : mentorCreateIssue(token, body)

MentorAssignMentee ==
    /\ Idle
    /\ \E token \in Tokens :
          /\ MentorGate(token) = 0
          /\ \E email \in {Absent} \cup EmailsInUse :
                assignMenteeFindMentee(Serving, token, email)

(* ---- requests served at once ---- *)
\* A request is taken up while the others are in flight.  The handlers are
\* interchangeable, so a request takes the first one that is free.  The
\* requests are those of the users registered at the start and of one e-mail
\* address that is not registered yet.
RaceEmails == {5}

Free == {c \in Handlers : calls[c].pc = "idle"}

RaceRegisterMentor ==
    \E c \in {h \in Free : h = FirstOf(Free)}, email \in RaceEmails : registerMentorFindOne(c, email, "secret1")

RaceRegisterMentee ==
    \E c \in {h \in Free : h = FirstOf(Free)}, email \in RaceEmails, mentorId \in {Absent, 1, 3} :
        registerMenteeFindOne(c, email, "secret1", mentorId)

RaceAssignMentee ==
    \E c \in {h \in Free : h = FirstOf(Free)}, token \in Tokens, email \in {3, 4} \cup RaceEmails :
        /\ MentorGate(token) = 0
        /\ assignMenteeFindMentee(c, token, email)

RaceCreateIssue ==
    \E c \in {h \in Free : h = FirstOf(Free)}, token \in Tokens :
        /\ MenteeGate(token) = 0
        /\ createIssueFindMentee(c, token, PlainIssueBody)

RaceCreateAchievement ==
    \E c \in {h \in Free : h = FirstOf(Free)}, token \in Tokens :
        /\ MenteeGate(token) = 0
        /\ createAchievementFindMentee(c, token, PlainAchievementBody)

RaceMentorAddComment ==
    \E c \in {h \in Free : h = FirstOf(Free)}, token \in Tokens, id \in DOMAIN issues, body \in RaceCommentBodies :
        /\ MentorGate(token) = 0
        /\ mentorAddCommentLoad(c, token, id, body)

RaceMenteeAddComment ==
    \E c \in {h \in Free : h = FirstOf(Free)}, token \in Tokens, id \in DOMAIN issues, body \in RaceCommentBodies :
        /\ MenteeGate(token) = 0
        /\ menteeAddCommentLoad(c, token, id, body)

\* Concurrent POST /api/mentee/academics with the body of the backlogs form
RaceUpdateAcademics ==
    \E c \in {h \in Free : h = FirstOf(Free)}, token \in Tokens,
       body \in RaceAcademicsBodies :
        /\ MenteeGate(token) = 0
        /\ VersionsBelow(MaxVersion)
        /\ updateAcademicsFind(c, token, body)

\* useState's initial value, no call made yet
InitHook ==
    /\ state = InitialState
    /\ closure = InitialState
    /\ inflight = {}
    /\ netCalls = 0
    /\ now = 1
    /\ ret = NoRet

Init ==
    /\ users = <<>>
    /\ issues = <<>>
    /\ achievements = <<>>
    /\ academics = <<>>
    /\ resp = NoResp
    /\ InitHook
    /\ InitPoller
    /\ InitHealth
    /\ calls = [c \in Handlers |-> NoCall]
    /\ InitBrowser

Next ==
    \/ Deliver
    \/ MenteeRejected
    \/ MentorRejected
    \/ RegisterMentor
    \/ RegisterMentee
    \/ Login
    \/ MenteeCreateIssue
    \/ MenteeGetIssues
    \/ MenteeGetIssue
    \/ MenteeAddComment
    \/ MenteeCreateAchievement
    \/ MenteeUpdateAcademics
    \/ MenteeGetAcademics
    \/ MentorGetIssues
    \/ MentorGetIssue
    \/ MentorAddComment
    \/ MentorCreateIssue
    \/ MentorAssignMentee
    \* the later steps of the handlers in flight
    \/ \E c \in Handlers : createIssueCreate(c)
    \/ \E c \in Handlers : createAchievementFindMentor(c)
    \/ \E c \in Handlers : createAchievementCreate(c)
    \/ \E c \in Handlers : registerMentorCreate(c)
    \/ \E c \in Handlers : registerMenteeCreate(c)
    \/ \E c \in Handlers : registerMenteeFindMentor(c)
    \/ \E c \in Handlers : registerMenteeSaveMentor(c)
    \/ \E c \in Handlers : registerMenteeSaveMentee(c)
    \/ \E c \in Handlers : CommentSave(c)
    \/ \E c \in Handlers : assignMenteeFindMentor(c)
    \/ \E c \in Handlers : assignMenteeSaveMentor(c)
    \/ \E c \in Handlers : assignMenteeSaveMentee(c)
    \/ \E c \in Handlers : updateAcademicsWrite(c)

Spec == Init /\ [][Next]_vars

(* ---- the academics routes on their own ---- *)
\* A mentor and two mentees are registered, the first mentee with the mentor's
\* id; no academic record is stored yet.
InitAcademics ==
    /\ users = <<[id |-> 1, email |-> 1, password |-> Hash("secret1"), role |-> "mentor",
                  mentees |-> <<2>>, assignedMentor |-> Absent],
                 [id |-> 2, email |-> 2, password |-> Hash("secret1"), role |-> "mentee",
                  mentees |-> <<>>, assignedMentor |-> 1],
                 [id |-> 3, email |-> 3, password |-> Hash("secret1"), role |-> "mentee",
                  mentees |-> <<>>, assignedMentor |-> Absent]>>
    /\ issues = <<>>
    /\ achievements = <<>>
    /\ academics = <<>>
    /\ resp = NoResp
    /\ InitHook
    /\ InitPoller
    /\ InitHealth
    /\ calls = [c \in Handlers |-> NoCall]
    /\ InitBrowser

NextAcademics ==
    \/ Deliver
    \/ MenteeRejected
    \/ MenteeUpdateAcademicsAny
    \/ \E c \in Handlers : updateAcademicsWrite(c)
    \/ MenteeGetAcademics

SpecAcademics == InitAcademics /\ [][NextAcademics]_vars

(* ---- the browser side on its own ---- *)
\* The mentor achievements page has rendered for the first time
InitPage ==
    /\ users = <<>>
    /\ issues = <<>>
    /\ achievements = <<>>
    /\ academics = <<>>
    /\ resp = NoResp
    /\ state = InitialPageState
    /\ closure = InitialPageState
    /\ inflight = {}
    /\ netCalls = 0
    /\ now = 1
    /\ ret = NoRet
    /\ InitPoller
    /\ InitHealth
    /\ calls = [c \in Handlers |-> NoCall]
    /\ page = MountedPage
    /\ view = NoView
    /\ db = NoDb

SpecPage == InitPage /\ [][NextPage]_vars

\* One of the three pages is open and shows what the server has stored
InitView ==
    /\ users = <<>>
    /\ issues = <<>>
    /\ achievements = <<>>
    /\ academics = <<>>
    /\ resp = NoResp
    /\ InitHook
    /\ InitPoller
    /\ InitHealth
    /\ calls = [c \in Handlers |-> NoCall]
    /\ page = [MountedPage EXCEPT !.pc = "closed"]
    /\ view \in {ConstructedView(p) : p \in ViewPages}
    /\ db = NoDb

SpecView == InitView /\ [][NextView]_vars

(* ---- the connection loop on its own ---- *)
\* Timers fire, promises settle and emitted events reach their listeners;
\* mongoose.connect settles within serverSelectionTimeoutMS.  Nothing makes
\* an established connection fail.
SpecDb ==
    /\ Init
    /\ [][NextDb]_vars
    /\ WF_vars(StartServer)
    /\ WF_vars(ConnectResolved \/ ConnectFails)
    /\ WF_vars(ConnectRejected)
    /\ WF_vars(ConnectionEventHandled)
    /\ WF_vars(RetryTimerFires)

SpecHook == Init /\ [][NextHook]_vars

SpecPoller == Init /\ [][NextPoller]_vars

SpecHealth == Init /\ [][NextHealth]_vars

(* ---- concurrent requests ---- *)
\* Two mentors and two mentees are registered, the second mentee with the id
\* of the first mentor, and that mentee has created an issue.
InitRace ==
    /\ users = <<[id |-> 1, email |-> 1, password |-> Hash("secret1"), role |-> "mentor",
                  mentees |-> <<4>>, assignedMentor |-> Absent],
                 [id |-> 2, email |-> 2, password |-> Hash("secret1"), role |-> "mentor",
                  mentees |-> <<>>, assignedMentor |-> Absent],
                 [id |-> 3, email |-> 3, password |-> Hash("secret1"), role |-> "mentee",
                  mentees |-> <<>>, assignedMentor |-> Absent],
                 [id |-> 4, email |-> 4, password |-> Hash("secret1"), role |-> "mentee",
                  mentees |-> <<>>, assignedMentor |-> 1]>>
    /\ issues = <<[id |-> 1, mentee |-> 4, mentor |-> 1, issueType |-> "Academic",
                   description |-> "d", status |-> "Open", comments |-> <<>>]>>
    /\ achievements = <<>>
    /\ academics = <<>>
    /\ resp = NoResp
    /\ InitHook
    /\ InitPoller
    /\ InitHealth
    /\ calls = [c \in Handlers |-> NoCall]
    /\ InitBrowser

NextRace ==
    \/ RaceRegisterMentor
    \/ RaceRegisterMentee
    \/ RaceAssignMentee
    \/ RaceMentorAddComment
    \/ RaceMenteeAddComment
    \/ RaceCreateIssue
    \/ RaceCreateAchievement
    \/ \E c \in Handlers : createIssueCreate(c)
    \/ \E c \in Handlers : createAchievementFindMentor(c)
    \/ \E c \in Handlers : createAchievementCreate(c)
    \/ \E c \in Handlers : registerMentorCreate(c)
    \/ \E c \in Handlers : registerMenteeCreate(c)
    \/ \E c \in Handlers : registerMenteeFindMentor(c)
    \/ \E c \in Handlers : registerMenteeSaveMentor(c)
    \/ \E c \in Handlers : registerMenteeSaveMentee(c)
    \/ \E c \in Handlers : CommentSave(c)
    \/ \E c \in Handlers : assignMenteeFindMentor(c)
    \/ \E c \in Handlers : assignMenteeSaveMentor(c)
    \/ \E c \in Handlers : assignMenteeSaveMentee(c)

SpecRace == InitRace /\ [][NextRace]_vars

\* Concurrent academics updates of the two mentees
NextRaceAcademics ==
    \/ RaceUpdateAcademics
    \/ \E c \in Handlers : updateAcademicsWrite(c)

SpecRaceAcademics == InitRace /\ [][NextRaceAcademics]_vars

\* ObjectIds are the positions in the collections
TypeOK ==
    /\ \A u \in DOMAIN users : users[u].id = u
    /\ \A i \in DOMAIN issues : issues[i].id = i

(* ---- properties ---- *)
Mentors == {u \in DOMAIN users : users[u].role = "mentor"}

Mentees == {u \in DOMAIN users : users[u].role = "mentee"}

\* C1: the list GET /api/mentor/issues returns to mentor M holds only issues
\* whose mentor is M, and the list GET /api/mentee/issues returns to mentee E
\* holds only issues whose mentee is E.
C1_ListsAreScopedToCaller ==
    /\ resp.op = "mentor.getIssues" /\ resp.status = 200 =>
          /\ resp.token \in Mentors
          /\ \A k \in DOMAIN resp.list :
                /\ resp.list[k].mentor = resp.token
                /\ resp.list[k].id \in DOMAIN issues
                /\ issues[resp.list[k].id].mentor = resp.token
    /\ resp.op = "mentee.getIssues" /\ resp.status = 200 =>
          /\ resp.token \in Mentees
          /\ \A k \in DOMAIN resp.list :
                /\ resp.list[k].mentee = resp.token
                /\ resp.list[k] = issues[resp.list[k].id]

\* A mentor lists while an issue of another mentor is stored, and does not get it.
C1_Witness ==
    /\ resp.op = "mentor.getIssues" /\ resp.status = 200
    /\ \E i \in DOMAIN issues : issues[i].mentor \in Mentors \ {resp.token}
    /\ resp.list = <<>>

\* C2: GET of an issue id answers 404 when no issue has the id, and otherwise
\* 403 unless the caller is the issue's mentee (mentee route) or the issue's
\* mentor (mentor route); only then is the issue returned.
C2_GetIsOwnerOnly ==
    resp.op \in {"mentee.getIssue", "mentor.getIssue"} /\ Castable(resp.arg) =>
        LET owner(i) == IF resp.op = "mentee.getIssue" THEN i.mentee ELSE i.mentor IN
        /\ resp.arg \notin DOMAIN issues => resp.status = 404 /\ resp.issue = NoIssue
        /\ resp.arg \in DOMAIN issues /\ owner(issues[resp.arg]) # resp.token =>
              resp.status = 403 /\ resp.issue = NoIssue
        /\ resp.arg \in DOMAIN issues /\ owner(issues[resp.arg]) = resp.token =>
              /\ resp.status = 200
              /\ resp.issue.id = resp.arg
              /\ resp.issue.description = issues[resp.arg].description

\* A mentee asks for an issue owned by another mentee and is refused.
C2_Witness ==
    /\ resp.op = "mentee.getIssue" /\ resp.status = 403
    /\ resp.arg \in DOMAIN issues
    /\ issues[resp.arg].mentee \in Mentees \ {resp.token}

MenteeOps == {"mentee.createIssue", "mentee.getIssues", "mentee.getIssue",
              "mentee.addComment", "mentee.createAchievement",
              "mentee.updateAcademics", "mentee.getAcademics"}

MentorOps == {"mentor.getIssues", "mentor.getIssue", "mentor.addComment",
              "mentor.assignMentee", "mentor.createIssue"}

\* C3: on every request to /api/mentor (resp. /api/mentee) the controller runs
\* only when the token is valid and its user is a mentor (resp. a mentee); a
\* missing or invalid token is answered 401 and a wrong role 403, without the
\* controller running and without any change to the collections.
C3_GateOnEveryRequest ==
    [][/\ resp'.op \in MentorOps =>
             /\ resp'.ran
             /\ resp'.token \in DOMAIN users
             /\ users[resp'.token].role = "mentor"
       /\ resp'.op \in MenteeOps =>
             /\ resp'.ran
             /\ resp'.token \in DOMAIN users
             /\ users[resp'.token].role = "mentee"
       /\ resp'.op \in {"mentor", "mentee"} =>
             /\ ~resp'.ran
             /\ UNCHANGED <<users, issues, achievements, academics>>
             /\ IF resp'.token \in {NoToken, BadToken}
                THEN resp'.status = 401
                ELSE /\ resp'.status = 403
                     /\ resp'.token \in DOMAIN users
                     /\ users[resp'.token].role # resp'.op]_vars

\* A mentee's valid token on a route of /api/mentor is answered 403.
C3_Witness ==
    /\ resp.op = "mentor" /\ resp.status = 403 /\ ~resp.ran
    /\ resp.token \in Mentees

\* C4: a create-issue or create-achievement request of a mentee without
\* assigned mentor is answered 400 'No assigned mentor found' and leaves the
\* stored issues and achievements as they were.
C4_UnassignedCreatesNothing ==
    [][resp'.op \in {"mentee.createIssue", "mentee.createAchievement"}
         /\ resp'.token \in DOMAIN users
         /\ users[resp'.token].assignedMentor = Absent
       => /\ resp'.status = 400
          /\ resp'.error = "No assigned mentor found"
          /\ issues' = issues
          /\ achievements' = achievements]_vars

\* An unassigned mentee is refused an achievement while a mentor is registered.
C4_Witness ==
    /\ resp.op = "mentee.createAchievement" /\ resp.status = 400
    /\ resp.error = "No assigned mentor found"
    /\ users[resp.token].assignedMentor = Absent
    /\ Mentors # {}
    /\ achievements = <<>>

\* C5: every issue a create-issue request stores has the caller's assigned
\* mentor as mentor, status Open and no comments, whatever the request body.
C5_CreatedIssueHasServerFields ==
    resp.op = "mentee.createIssue" /\ resp.status = 201 =>
        /\ issues[resp.arg].mentor = users[resp.token].assignedMentor
        /\ issues[resp.arg].status = "Open"
        /\ issues[resp.arg].comments = <<>>

IsPrefix(a, b) == Len(a) <= Len(b) /\ SubSeq(b, 1, Len(a)) = a

\* The step of handler c that saves the issue of an addComment request of
\* controller op and answers
SavesComment(c, op) ==
    /\ calls[c].op = op
    /\ calls[c].pc = "save"
    /\ calls'[c].pc = "done"

\* C6: every step leaves the comments of every issue as a prefix of its new
\* comment list, and a successful add-comment of either role adds exactly one
\* comment, the caller's, after the ones already stored.
C6_CommentsAppendOnly ==
    [][/\ \A i \in DOMAIN issues :
             i \in DOMAIN issues' /\ IsPrefix(issues[i].comments, issues'[i].comments)
       /\ \A c \in Handlers :
             SavesComment(c, "mentee.addComment") \/ SavesComment(c, "mentor.addComment") =>
                LET before == issues[calls[c].arg].comments
                    after == issues'[calls[c].arg].comments IN
                /\ calls'[c].status = 200
                /\ Len(after) = Len(before) + 1
                /\ SubSeq(after, 1, Len(before)) = before
                /\ after[Len(after)] = [user |-> calls[c].caller,
                                        text |-> calls[c].body.text]]_vars

\* The mentor's comment is stored after the mentee's earlier one.
C6_Witness ==
    /\ resp.op = "mentor.addComment" /\ resp.status = 200
    /\ Len(issues[resp.arg].comments) = 2
    /\ issues[resp.arg].comments[1].user \in Mentees
    /\ issues[resp.arg].comments[2].user = resp.token

\* C7: a mentor add-comment with a text, on an issue of the caller, is
\* accepted whatever the status of the issue is; when its status is one of
\* the four enum values the issue has that status afterwards, whatever the
\* stored one was; any other status value leaves the stored status, and the
\* comment is appended in both cases.
C7_MentorStatusOverwrite ==
    [][\A c \in Handlers :
          /\ calls[c].pc = "idle" /\ calls'[c].op = "mentor.addComment"
             /\ calls'[c].body.text # "" /\ calls'[c].arg \in DOMAIN issues
             /\ issues[calls'[c].arg].mentor = calls'[c].caller
             => calls'[c].pc = "save"
          /\ SavesComment(c, "mentor.addComment") =>
                LET i == calls[c].arg
                    requested == calls[c].body.status IN
                /\ calls'[c].status = 200
                /\ issues'[i].status = IF requested \in Statuses THEN requested
                                       ELSE issues[i].status
                /\ Len(issues'[i].comments) = Len(issues[i].comments) + 1]_vars

\* A comment on a Closed issue is accepted and reopens it.
C7_Witness ==
    /\ resp.op = "mentor.addComment" /\ resp.status = 200
    /\ resp.was = "Closed" /\ resp.reqStatus = "Open"
    /\ issues[resp.arg].status = "Open"

\* C8: a successful mentee add-comment changes the stored data in one place
\* only: the caller's comment is appended to the issue; status, mentor and
\* mentee stay, also when the body carries a status.
C8_MenteeCommentOnlyAppends ==
    [][\A c \in Handlers :
          SavesComment(c, "mentee.addComment") =>
             /\ calls'[c].status = 200
             /\ issues' = [issues EXCEPT ![calls[c].arg].comments =
                              Append(@, [user |-> calls[c].caller,
                                         text |-> calls[c].body.text])]
             /\ UNCHANGED <<users, achievements, academics>>]_vars

\* The scenario: mentor comment with Under Review, then mentee comment with a
\* status in its body; status Under Review, comments [mentor's, mentee's].
C8_Witness ==
    /\ resp.op = "mentee.addComment" /\ resp.status = 200
    /\ resp.reqStatus = "Resolved"
    /\ issues[resp.arg].status = "Under Review"
    /\ Len(issues[resp.arg].comments) = 2
    /\ issues[resp.arg].comments[1].user = issues[resp.arg].mentor
    /\ issues[resp.arg].mentor \in Mentors
    /\ issues[resp.arg].comments[2].user = resp.token

Rosters(e) == {m \in DOMAIN users : Includes(users[m].mentees, e)}

NoDuplicates(seq) == \A j, k \in DOMAIN seq : seq[j] = seq[k] => j = k

\* No handler is between two of its steps
AllQuiet == \A c \in Handlers : calls[c].pc \in {"idle", "done"}

\* C9: in every state in which the register and assign requests made so far
\* have all completed, mentee e is in the roster of mentor m exactly when
\* e.assignedMentor = m, every mentee is in at most one roster and no roster
\* lists a mentee twice.
C9_RosterAgreesWithAssignedMentor ==
    AllQuiet =>
        /\ \A m \in DOMAIN users, e \in DOMAIN users :
              Includes(users[m].mentees, e) <=>
                 (users[e].role = "mentee" /\ users[e].assignedMentor = m)
        /\ \A e \in Mentees : Cardinality(Rosters(e)) <= 1
        /\ \A m \in DOMAIN users : NoDuplicates(users[m].mentees)

\* C10: assignMentee for a mentee that has an assigned mentor is answered 400
\* and assignMentee with an e-mail of no mentee 404; a step of an assignMentee
\* call that ends it with a failure leaves every roster and every
\* assignedMentor as they were.
C10_FailedAssignChangesNothing ==
    [][\A c \in Handlers :
          calls'[c].op = "mentor.assignMentee" /\ calls'[c] # calls[c] =>
             LET target == {u \in DOMAIN users :
                               users[u].email = calls'[c].arg /\ users[u].role = "mentee"} IN
             /\ calls[c].pc = "idle" /\ calls'[c].arg # Absent /\ target = {} =>
                   /\ calls'[c].pc = "done" /\ calls'[c].status = 404
                   /\ resp'.status = 404
             /\ calls[c].pc = "idle" /\ (\E u \in target : users[u].assignedMentor # Absent) =>
                   /\ calls'[c].pc = "done" /\ calls'[c].status = 400
                   /\ calls'[c].error = "Mentee is already assigned to a mentor"
                   /\ resp'.status = 400
             /\ calls'[c].pc = "done" /\ calls'[c].status # 200 => users' = users]_vars

\* A mentor asks for a mentee that another mentor already has.
C10_Witness ==
    /\ resp.op = "mentor.assignMentee" /\ resp.status = 400
    /\ \E u \in Mentees :
          /\ users[u].email = resp.arg
          /\ users[u].assignedMentor \in Mentors \ {resp.token}

\* C11: a mentee registration whose e-mail is free stores the mentee without
\* assigned mentor and in no roster.  With a mentorId that is the id of a
\* mentor it ends with answer 201, the mentee in that mentor's roster and its
\* assignedMentor set to the mentor; with a mentorId that is the id of no
\* user or of a user that is not a mentor it is still answered 201 with a
\* token and writes nothing more.
C11_RegisterWithMentorId ==
    [][\A c \in Handlers :
          calls'[c].op = "registerMentee" /\ calls'[c] # calls[c] =>
             LET call == calls'[c]
                 e == call.mentee
                 m == call.body.mentorId
                 resolves == m \in DOMAIN users /\ users[m].role = "mentor" IN
             /\ calls[c].pc = "create" /\ call.status # 500 =>
                   /\ e = Len(users) + 1 /\ Len(users') = e
                   /\ users'[e].role = "mentee" /\ users'[e].email = call.arg
                   /\ users'[e].assignedMentor = Absent
                   /\ \A u \in DOMAIN users' : ~Includes(users'[u].mentees, e)
                   /\ \A u \in DOMAIN users : users'[u] = users[u]
                   /\ m = Absent => call.pc = "done"
             /\ calls[c].pc = "findMentor" /\ ~resolves =>
                   /\ call.pc = "done"
                   /\ users' = users
             /\ call.pc = "done" /\ e # 0 =>
                   /\ call.status = 201
                   /\ resp'.status = 201 /\ resp'.issued = e
                   /\ resolves =>
                         /\ users'[e].assignedMentor = m
                         /\ Includes(users'[m].mentees, e)]_vars

\* A mentee registers with the id of another mentee as mentorId while a
\* mentor exists: 201, a token, no assignment.
C11_Witness ==
    /\ resp.op = "registerMentee" /\ resp.status = 201
    /\ resp.issued = Len(users)
    /\ resp.mentorId \in Mentees \ {resp.issued}
    /\ Mentors # {}
    /\ users[resp.issued].assignedMentor = Absent
    /\ Rosters(resp.issued) = {}

\* C12: a login with a registered e-mail and a password that is not the
\* user's, and a login with an e-mail of no user, get the same answer: 401,
\* 'Invalid credentials', no token.
C12_LoginFailuresAlike ==
    resp.op = "login" /\ resp.arg # Absent /\ resp.password # "" =>
        LET known == {u \in DOMAIN users : users[u].email = resp.arg} IN
        /\ (known = {} \/ \E u \in known : users[u].password # Hash(resp.password)) =>
              /\ resp.status = 401
              /\ resp.error = "Invalid credentials"
              /\ resp.issued = NoToken
        /\ (\E u \in known : users[u].password = Hash(resp.password)) =>
              /\ resp.status = 200
              /\ resp.issued \in known

\* A wrong password for a registered e-mail is answered 401.
C12_Witness ==
    /\ resp.op = "login" /\ resp.status = 401
    /\ resp.password = "wrong00"
    /\ \E u \in DOMAIN users : users[u].email = resp.arg

\* C13: no step changes the mentor field of a stored issue: comments of either
\* role, assignments, registrations, logins and academics updates leave it at
\* the value the issue was created with.
C13_IssueMentorIsFixed ==
    [][\A i \in DOMAIN issues :
          i \in DOMAIN issues' /\ issues'[i].mentor = issues[i].mentor]_vars

\* A mentee comments on an issue whose mentor is not the mentee's assigned
\* mentor; the issue keeps its mentor.
C13_Witness ==
    /\ resp.op = "mentee.addComment" /\ resp.status = 200
    /\ issues[resp.arg].mentor # users[resp.token].assignedMentor
    /\ issues[resp.arg].mentor \in Mentors

\* C14: a successful academics update of a mentee that has a record sets each
\* of the five fields the request carries to the request's value (backlogs to
\* its number, 0 when it is none) and leaves each field the request omits,
\* and every other record, as stored; an update that fails changes nothing.
C14_AcademicsPartialUpdate ==
    [][resp'.op = "mentee.updateAcademics"
         /\ (\E k \in DOMAIN academics : academics[k].mentee = resp'.token) =>
          LET k == CHOOSE k \in DOMAIN academics :
                      /\ academics[k].mentee = resp'.token
                      /\ \A j \in 1..(k - 1) : academics[j].mentee # resp'.token
              body == resp'.body IN
          IF resp'.status = 200
          THEN /\ Len(academics') = Len(academics)
               /\ \A j \in DOMAIN academics : j # k => academics'[j] = academics[j]
               /\ academics'[k].mentee = academics[k].mentee
               /\ \A f \in AcademicFields \ DOMAIN body : academics'[k][f] = academics[k][f]
               /\ \A f \in (AcademicFields \ {"backlogs"}) \cap DOMAIN body :
                     academics'[k][f] = body[f]
               /\ "backlogs" \in DOMAIN body =>
                     academics'[k].backlogs =
                        (IF body["backlogs"] = "2" THEN 2 ELSE 0)
          ELSE academics' = academics]_vars

\* An update that carries only moocCourses reaches a record whose other
\* fields were set before, and they are still set.
C14_Witness ==
    /\ resp.op = "mentee.updateAcademics" /\ resp.status = 200 /\ resp.arg # 0
    /\ DOMAIN resp.body = {"moocCourses"}
    /\ academics[resp.arg].moocCourses = "[ML]"
    /\ academics[resp.arg].semesterGPA = "[{semester:1,gpa:8}]"
    /\ academics[resp.arg].certifications = "[AWS]"
    /\ academics[resp.arg].backlogs = 2

\* C15: of two fetches (execute without skipCache) on one instance issued less
\* than the cache time apart, the second performs no network call, so that
\* the two perform one in total; refresh performs a network call every time.
\* The fetch part is stated for the case most favourable to it: the network
\* call of the first fetch has completed with success before the second fetch
\* is issued and no call is in flight.
C15_OneNetworkCallPerWindow ==
    [][/\ ret'.op = "fetch" /\ ret' # ret
          /\ ret'.prev # 0 /\ ret'.at - ret'.prev < CacheTime
          /\ inflight = {} /\ state.lastUpdated >= ret'.prev /\ state.error = "null"
          => ~ret'.networked /\ netCalls' = netCalls
       /\ ret'.op = "refresh" /\ ret' # ret
          => ret'.networked /\ netCalls' = netCalls + 1]_vars

\* C16: within one mount of IssueNotifications the 'pending too long'
\* notification is shown at most once, however many times the interval fires.
C16_NotifiedAtMostOnce == Len(toasts) <= 1

\* C17: every answer of GET /api/health has status code 200, whatever the
\* state of the connection, the outcome of the ping and also when building the
\* response throws; its status field is 'up' exactly when the connection is
\* connected and the ping is answered.
C17_HealthAlways200 ==
    healthResp # NoHealth =>
        /\ healthResp.code = 200
        /\ healthResp.status = "up" <=> (healthResp.connected /\ healthResp.responsive)

\* C18: a create-issue request whose issueType is outside the enum or whose
\* description is missing, and a request with an issue id that is no valid
\* identifier, are answered 400 and never 500.
C18_MalformedIs400 ==
    /\ resp.op = "mentee.createIssue" => resp.status # 500
    /\ resp.op \in {"mentee.getIssue", "mentor.getIssue", "mentee.addComment",
                    "mentor.addComment"} /\ resp.arg = BadId => resp.status = 400

\* C19: when two mentors have run assignMentee for the same mentee, both
\* having read the mentee as unassigned, and both calls have ended, at most
\* one of the calls has succeeded and the mentee is in exactly one roster,
\* the one of the mentor its assignedMentor names.
C19_OneConcurrentAssignWins ==
    AllQuiet =>
        \A c, d \in Handlers :
            /\ c # d
            /\ calls[c].op = "mentor.assignMentee" /\ calls[d].op = "mentor.assignMentee"
            /\ calls[c].caller # calls[d].caller
            /\ calls[c].mentee # 0 /\ calls[c].mentee = calls[d].mentee
            => /\ ~(calls[c].status = 200 /\ calls[d].status = 200)
               /\ Rosters(calls[c].mentee) = {users[calls[c].mentee].assignedMentor}

\* Two addComment calls on one issue that both loaded it before either saved,
\* and have both ended
Interleaved(c, d) ==
    /\ c # d
    /\ calls[c].pc = "done" /\ calls[d].pc = "done"
    /\ calls[c].op \in {"mentee.addComment", "mentor.addComment"}
    /\ calls[d].op \in {"mentee.addComment", "mentor.addComment"}
    /\ calls[c].arg = calls[d].arg
    /\ calls[c].doc # NoIssue /\ calls[d].doc # NoIssue
    /\ calls[c].loaded = calls[d].loaded

\* C20 as stated: after two interleaved addComment calls both callers have a
\* success response and the stored issue is the document one of them wrote,
\* the one whose save committed last.
C20_LastWriteWinsOnDocument ==
    \A c, d \in Handlers : Interleaved(c, d) =>
        /\ calls[c].status = 200 /\ calls[d].status = 200
        /\ issues[calls[c].arg] = calls[c].doc \/ issues[calls[c].arg] = calls[d].doc

\* C20 amended: after two interleaved addComment calls both callers have a
\* success response without any error, and the stored issue holds the
\* comments it had when they loaded it followed by the comments of both
\* calls; when no other save came between, they are in the order of the
\* saves and the status is the one set by the last save that changed it.
C20_BothCommentsStored ==
    \A c, d \in Handlers : Interleaved(c, d) =>
        LET stored == issues[calls[c].arg]
            n == Len(calls[c].loaded.comments) IN
        /\ calls[c].status = 200 /\ calls[c].error = ""
        /\ calls[d].status = 200 /\ calls[d].error = ""
        /\ Len(stored.comments) >= n + 2
        /\ SubSeq(stored.comments, 1, n) = calls[c].loaded.comments
        /\ \E j, k \in (n + 1)..Len(stored.comments) :
              /\ j # k
              /\ stored.comments[j] = Pushed(calls[c])
              /\ stored.comments[k] = Pushed(calls[d])
        /\ Len(stored.comments) = n + 2 =>
              \E first, last \in {c, d} :
                 /\ first # last
                 /\ stored.comments[n + 1] = Pushed(calls[first])
                 /\ stored.comments[n + 2] = Pushed(calls[last])
                 /\ stored.status \in
                       {IF calls[last].doc.status # calls[last].loaded.status
                        THEN calls[last].doc.status
                        ELSE IF calls[first].doc.status # calls[first].loaded.status
                        THEN calls[first].doc.status
                        ELSE calls[first].loaded.status}

\* The mentor and the mentee of an issue comment at the same time; both
\* comments are stored and the mentor's status is kept.
C20_Witness ==
    \E c, d \in Handlers :
        /\ Interleaved(c, d)
        /\ calls[c].op = "mentor.addComment" /\ calls[d].op = "mentee.addComment"
        /\ Len(issues[calls[c].arg].comments) = 2
        /\ issues[calls[c].arg].comments[1] = Pushed(calls[c])
        /\ issues[calls[c].arg].comments[2] = Pushed(calls[d])
        /\ calls[c].doc.status = "Resolved"
        /\ issues[calls[c].arg].status = "Resolved"

\* C21: every issue and every achievement created through the mentee create
\* endpoints has its mentee field equal to the authenticated caller, whatever
\* the request body contains.
C21_CreatedRecordOwnedByCaller ==
    /\ resp.op = "mentee.createIssue" /\ resp.status = 201 =>
           issues[resp.arg].mentee = resp.token
    /\ resp.op = "mentee.createAchievement" /\ resp.status = 201 =>
           achievements[resp.arg].mentee = resp.token

\* C22: the completion of a network call with a failure (a rejection, or a
\* response with success = false) sets error and isLoading = false and leaves
\* data and lastUpdated as they were; a completion with success replaces data
\* by the response and sets lastUpdated to the time of completion.
C22_FailureKeepsData ==
    [][/\ ret'.op = "response" /\ ret'.outcome = "error" /\ inflight' # inflight
          => /\ state'.error # "null"
             /\ ~state'.isLoading
             /\ state'.data = state.data
             /\ state'.lastUpdated = state.lastUpdated
       /\ ret'.op = "response" /\ ret'.outcome = "ok" /\ inflight' # inflight
          => /\ state'.data = ret'.value
             /\ state'.lastUpdated = now
             /\ ~state'.isLoading]_vars

\* A call has failed after an earlier one succeeded: the error is set and the
\* data fetched before is still there.
C22_Witness ==
    /\ ret.op = "response" /\ ret.outcome = "error"
    /\ state.error # "null"
    /\ state.data = "A"
    /\ state.lastUpdated # 0 /\ state.lastUpdated < now

\* C23: starting a network call cancels none; a call leaves the calls in
\* flight only by its own completion, which leaves every other call in
\* flight; and every successful completion makes its response the data,
\* whichever call it belongs to and whatever is still in flight.  So the data
\* ends as the response that arrives last, also when that response answers
\* the call that was started first.
C23_LastResponseWins ==
    [][/\ ret'.networked /\ ret' # ret => inflight' = inflight \cup {ret'.id}
       /\ \A id \in inflight \ inflight' : ret'.op = "response" /\ ret'.id = id
       /\ ret'.op = "response" /\ inflight' # inflight
          => /\ inflight' = inflight \ {ret'.id}
             /\ ret'.outcome = "ok" => state'.data = ret'.value]_vars

\* Calls 1 and 2 overlapped; call 2 completed first with "B", which the page
\* has rendered; the response of call 1, "A", arrived last, no call is in
\* flight any more and the data is "A".
C23_Witness ==
    /\ ret.op = "response" /\ ret.id = 1 /\ ret.outcome = "ok"
    /\ netCalls = 2 /\ inflight = {}
    /\ closure.data = "B" /\ closure.lastUpdated # 0
    /\ ret.value = "A" /\ state.data = "A"

\* C24: isLoading is true exactly while at least one network call started by
\* execute or refresh has not completed, also when two calls overlap.  Stated
\* for the states right after a call has completed.
C24_LoadingWhileInFlight ==
    ret.op = "response" => (state.isLoading <=> inflight # {})

\* C25: on the mentor achievements page every run of the filter effect
\* performs a network fetch with the type and position filters just chosen,
\* also inside the cache window of the fetch before it, never answering from
\* the cache; and when the response to a request sent with the filters on
\* display arrives, the list shows the achievements of those filters.
C25_FilterChangeFetches ==
    [][/\ page.pc = "effect" /\ page'.pc = "idle"
          => /\ ret'.networked
             /\ netCalls' = netCalls + 1
             /\ page'.params[netCalls'] = ParamsOf(page.typeFilter, page.positionFilter)
       /\ /\ ret'.op = "response" /\ ret'.outcome = "ok" /\ inflight' # inflight
          /\ page.params[ret'.id] = ParamsOf(page.typeFilter, page.positionFilter)
          => /\ displayAchievements' =
                   getAchievements(ParamsOf(page.typeFilter, page.positionFilter))
             /\ ~state'.isLoading]_vars

\* The position filter was changed to 1st less than the cache time after a
\* fetch of all achievements completed, and the effect has sent a request
\* with position = 1st.
C25_Witness ==
    /\ page.pc = "idle" /\ page.typeFilter = "All" /\ page.positionFilter = "1st"
    /\ ret.op = "fetch" /\ ret.networked
    /\ page.params[ret.id] = ParamsOf("All", "1st")
    /\ closure.lastUpdated # 0 /\ now - closure.lastUpdated < CacheTime
    /\ page.debugAchievements = StoredAchievements

\* C26: when the answer of a successful add-comment or assign-mentee call
\* reaches the page, the page patches what it shows at once, by at least the
\* entity of the answer, and always sends a fetch that reads the data again
\* from the server.
C26_PatchThenRefresh ==
    [][view.post.at = "served" /\ view'.post.at = "none" /\ view'.ok
          => /\ view'.shown > view.shown
             /\ view'.fetches = view.fetches + 1]_vars

\* C27: a poll shows the notification only if at least one issue with status
\* Open or Under Review was created more than 3 days (72 hours) before it;
\* Resolved and Closed issues never count, and an issue created 3 days ago or
\* less never triggers it.
C27_OnlyOlderThanThreeDays ==
    \A k \in DOMAIN toasts :
        /\ \A n \in DOMAIN toasts[k].issues :
               toasts[k].issues[n].status \in {"Open", "Under Review"}
        /\ \E n \in DOMAIN toasts[k].issues :
               toasts[k].issues[n].age > DAYS_THRESHOLD * 24

\* handleConnectionError ran in this step: the rejection was delivered to
\* connectDB or a connection event was handled
Handled ==
    \/ db.attempt = "failed" /\ db'.attempt # "failed"
    \/ db'.events # db.events /\ db'.events \subseteq db.events

\* C28: a handled failure with fewer than 5 retries counted schedules retry
\* n = retryCount + 1 after min(2^n, 30) seconds; a successful connect resets
\* the count to 0; a failure handled when 5 retries are counted makes the
\* process exit; and whenever the server has started and is not connected,
\* the loop leads to a connected state or to the exit of the process.
C28_BackoffThenExit ==
    /\ [][/\ Handled /\ db.retryCount < 5
             => /\ db'.retryCount = db.retryCount + 1
                /\ db'.timer = (IF 2 ^ db'.retryCount < 30 THEN 2 ^ db'.retryCount ELSE 30)
                /\ ~db'.exited
          /\ Handled /\ db.retryCount = 5 => db'.exited
          /\ db.attempt = "pending" /\ db'.conn = "connected" /\ db'.attempt = "none"
             => db'.retryCount = 0]_vars
    /\ (db.started /\ db.conn # "connected") ~> (db.conn = "connected" \/ db.exited)

\* The fifth retry is scheduled: 2^5 = 32 seconds are capped to 30.
C28_Witness ==
    /\ db.retryCount = 5 /\ db.timer = 30 /\ ~db.exited /\ db.conn = "disconnected"

\* C29: the process exits only after 5 reconnection attempts have been made,
\* the retry counter growing by one per failed attempt, also when the
\* rejection and the 'disconnected' and 'error' events of one failure are
\* all delivered.
C29_ExitAfterFiveAttempts ==
    db.exited => db.reattempts >= MAX_RETRY_COUNT

\* C30: at most one AcademicRecord exists per mentee after any sequence of
\* academics updates, also when two updates of one mentee both look up the
\* record before either creates it.
C30_OneRecordPerMentee ==
    \A u \in DOMAIN users : Cardinality(AcademicsOf(u)) <= 1

====
